---- MODULE Spec2Model ----
(***************************************************************************)
(* Model of the reliability layer of tvbingefriend_tvmaze_client:          *)
(* TVMazeRateLimiter (rate_limiter.py), TVMazeRetryHandler                 *)
(* (retry_handler.py) and TVMazeReliabilityManager (reliability.py).       *)
(*                                                                         *)
(* Time is the integer number of seconds since the limiter was built;     *)
(* datetime.now(UTC) is the variable now.  time.sleep(d) advances now by  *)
(* d; the Tick action lets any further time pass between steps.           *)
(***************************************************************************)
EXTENDS Integers, Sequences, FiniteSets, TLC

VARIABLES
    now,                  \* datetime.now(UTC), in seconds
    requests_per_minute,  \* TVMazeRateLimiter.requests_per_minute
    burst_requests,       \* TVMazeRateLimiter.burst_requests
    request_times,        \* TVMazeRateLimiter.request_times (deque, oldest first)
    burst_count,          \* TVMazeRateLimiter.burst_count
    last_burst_reset,     \* TVMazeRateLimiter.last_burst_reset
    max_attempts,         \* TVMazeRetryHandler.max_attempts
    base_delay_seconds,   \* TVMazeRetryHandler.base_delay_seconds
    max_delay_seconds,    \* TVMazeRetryHandler.max_delay_seconds
    backoff_state,        \* TVMazeRetryHandler.backoff_state (defaultdict)
    failures_in_a_row,    \* per operation id, the handle_failure calls since its last
                          \* handle_success (history, read by no operation)
    pc,                   \* position of the caller inside a wrapped call
    call,                 \* the wrapped call in progress: its arguments and locals
    calls,                \* the number of wrapped calls started so far
    trace,                \* what the current (or last) wrapped call has done so far
    ret                   \* what the last completed operation returned

limiterVars == <<request_times, burst_count, last_burst_reset>>
limiterConfig == <<requests_per_minute, burst_requests>>
retryConfig == <<max_attempts, base_delay_seconds, max_delay_seconds>>
handlerVars == <<backoff_state, failures_in_a_row>>
callVars == <<pc, call, calls, trace>>
vars == <<now, requests_per_minute, burst_requests, request_times, burst_count,
          last_burst_reset, max_attempts, base_delay_seconds, max_delay_seconds,
          backoff_state, failures_in_a_row, pc, call, calls, trace, ret>>

----------------------------------------------------------------------------
(* Bounds of the model *)

\* largest requests_per_minute a limiter is built with
MaxRpm == 3
\* largest burst_requests a limiter is built with
MaxBurst == 2
\* no request is recorded once request_times holds this many entries
MaxTracked == 6
\* no operation starts and no time passes by itself after this second
MaxTime == 125

\* the values of base_delay_seconds and max_delay_seconds a handler is built with
BaseDelays == {1, 3}
MaxDelays == {2, 60}

\* the amounts of time that Tick lets pass
TickSteps == {30, 60, 61}

----------------------------------------------------------------------------
(* Program constants *)

\* timedelta(minutes=1), the sliding window and the burst window
WindowSeconds == 60
\* the 60 of time_until_next_request
ResetSeconds == 60
\* the floor of time_until_next_request
MinWaitSeconds == 1

Max(a, b) == IF a >= b THEN a ELSE b
Min(a, b) == IF a <= b THEN a ELSE b

----------------------------------------------------------------------------
(* TVMazeRateLimiter *)

\* PurgeOld keeping the entry that is exactly one minute old
RECURSIVE PurgeOldKeepsBoundary(_, _)
PurgeOldKeepsBoundary(times, cutoff_time) ==
    IF times # <<>> /\ Head(times) < cutoff_time
    THEN PurgeOldKeepsBoundary(Tail(times), cutoff_time)
    ELSE times

\* while self.request_times and self.request_times[0] <= cutoff_time: popleft()
RECURSIVE PurgeOld(_, _)
PurgeOld(times, cutoff_time) ==
    IF times # <<>> /\ Head(times) <= cutoff_time
    THEN PurgeOld(Tail(times), cutoff_time)
    ELSE times

\* BurstWindowOver with the burst window already over at exactly one minute
BurstWindowOverAtOneMinute(t, reset) == t - reset >= WindowSeconds

\* if now - self.last_burst_reset > timedelta(minutes=1)
BurstWindowOver(t, reset) == t - reset > WindowSeconds

\* The limiter state that can_make_request leaves behind at time t.
AfterCheck(times, burst, reset, t) ==
    [request_times    |-> PurgeOld(times, t - WindowSeconds),
     burst_count      |-> IF BurstWindowOver(t, reset) THEN 0 ELSE burst,
     last_burst_reset |-> IF BurstWindowOver(t, reset) THEN t ELSE reset]

\* WithinLimits with both comparisons letting the cap itself through
WithinLimitsInclusive(s) ==
    /\ Len(s.request_times) <= requests_per_minute
    /\ s.burst_count <= burst_requests

\* within_per_minute_limit and within_burst_limit, on the state after the check
WithinLimits(s) ==
    /\ Len(s.request_times) < requests_per_minute
    /\ s.burst_count < burst_requests

\* The state that can_make_request() leaves behind when called now.
Checked == AfterCheck(request_times, burst_count, last_burst_reset, now)

\* TimeUntil without the floor of one second
TimeUntilWithoutFloor(s, t) ==
    IF WithinLimits(s) THEN 0
    ELSE Min(IF s.request_times # <<>>
             THEN ResetSeconds - (t - Head(s.request_times))
             ELSE 0,
             ResetSeconds - (t - s.last_burst_reset))

\* TimeUntil with the two windows waited for one after the other
TimeUntilBothWindows(s, t) ==
    IF WithinLimits(s) THEN 0
    ELSE Max(MinWaitSeconds,
             (IF s.request_times # <<>>
              THEN ResetSeconds - (t - Head(s.request_times))
              ELSE 0)
             + (ResetSeconds - (t - s.last_burst_reset)))

\* time_until_next_request(), computed on the state s its can_make_request()
\* call has left behind, at time t.
TimeUntil(s, t) ==
    IF WithinLimits(s) THEN 0
    ELSE LET time_until_minute_reset ==
                 IF s.request_times # <<>>
                 THEN ResetSeconds - (t - Head(s.request_times))
                 ELSE 0
             time_until_burst_reset ==
                 ResetSeconds - (t - s.last_burst_reset)
         IN  Max(MinWaitSeconds, Min(time_until_minute_reset, time_until_burst_reset))

\* request_times after record_request() at time t
Recorded(times, t) == Append(Append(times, t), t)

SetLimiter(s) ==
    /\ request_times' = s.request_times
    /\ burst_count' = s.burst_count
    /\ last_burst_reset' = s.last_burst_reset

\* can_make_request()
CanMakeRequest ==
    /\ pc = "idle"
    /\ SetLimiter(Checked)
    /\ ret' = [op |-> "can_make_request", val |-> WithinLimits(Checked)]
    /\ UNCHANGED <<now, limiterConfig, retryConfig, handlerVars, callVars>>

\* record_request()
RecordRequest ==
    /\ pc = "idle"
    /\ Len(request_times) + 2 <= MaxTracked
    /\ request_times' = Recorded(request_times, now)
    /\ burst_count' = burst_count + 1
    /\ ret' = [op |-> "record_request"]
    /\ UNCHANGED <<now, limiterConfig, last_burst_reset, retryConfig, handlerVars, callVars>>

\* time_until_next_request()
TimeUntilNextRequest ==
    /\ pc = "idle"
    /\ SetLimiter(Checked)
    /\ ret' = [op |-> "time_until_next_request", val |-> TimeUntil(Checked, now)]
    /\ UNCHANGED <<now, limiterConfig, retryConfig, handlerVars, callVars>>

\* WaitIfNeeded with the permission checked once more after the sleep
WaitIfNeededChecksAgain ==
    /\ pc = "idle"
    /\ now <= MaxTime
    /\ LET wait_time == IF WithinLimits(Checked) THEN 0 ELSE TimeUntil(Checked, now)
       IN  /\ now' = now + wait_time
           /\ SetLimiter(AfterCheck(Checked.request_times, Checked.burst_count,
                                    Checked.last_burst_reset, now + wait_time))
           /\ ret' = [op |-> "wait_if_needed", slept |-> wait_time,
                      permitted |-> WithinLimits(Checked)]
    /\ UNCHANGED <<limiterConfig, retryConfig, handlerVars, callVars>>

\* wait_if_needed(): the check, and the sleep when the check fails
WaitIfNeeded ==
    /\ pc = "idle"
    /\ now <= MaxTime
    /\ SetLimiter(Checked)
    /\ LET wait_time == IF WithinLimits(Checked) THEN 0 ELSE TimeUntil(Checked, now)
       IN  /\ now' = now + wait_time
           /\ ret' = [op |-> "wait_if_needed", slept |-> wait_time,
                      permitted |-> WithinLimits(Checked)]
    /\ UNCHANGED <<limiterConfig, retryConfig, handlerVars, callVars>>

\* GetStatus counting itself as a request of the burst window
GetStatusCountsItself ==
    /\ pc = "idle"
    /\ request_times' = Checked.request_times
    /\ burst_count' = Checked.burst_count + 1
    /\ last_burst_reset' = Checked.last_burst_reset
    /\ ret' = [op |-> "get_status",
               can_make_request |-> WithinLimits(Checked),
               time_until_next_request |-> TimeUntil(Checked, now),
               requests_in_last_minute |-> Len(Checked.request_times),
               burst_requests_used |-> Checked.burst_count + 1,
               last_burst_reset |-> Checked.last_burst_reset,
               current_time |-> now]
    /\ UNCHANGED <<now, limiterConfig, retryConfig, handlerVars, callVars>>

\* get_status()
GetStatus ==
    /\ pc = "idle"
    /\ SetLimiter(Checked)
    /\ ret' = [op |-> "get_status",
               can_make_request |-> WithinLimits(Checked),
               time_until_next_request |-> TimeUntil(Checked, now),
               requests_in_last_minute |-> Len(Checked.request_times),
               burst_requests_used |-> Checked.burst_count,
               last_burst_reset |-> Checked.last_burst_reset,
               current_time |-> now]
    /\ UNCHANGED <<now, limiterConfig, retryConfig, handlerVars, callVars>>

\* Time passes between two operations of the caller, who has looked at what the
\* last one returned.  Inside an operation the clock moves by its sleeps alone.
Tick ==
    /\ pc = "idle"
    /\ \E d \in TickSteps :
          /\ now + d <= MaxTime
          /\ now' = now + d
    /\ trace' = <<>>
    /\ ret' = [op |-> "none"]
    /\ UNCHANGED <<limiterConfig, limiterVars, retryConfig, handlerVars, pc, call, calls>>

----------------------------------------------------------------------------
(* Errors the wrapped work can raise *)

\* str.lower(), letter by letter
UpperCase == <<"A", "B", "C", "D", "E", "F", "G", "H", "I", "J", "K", "L", "M",
               "N", "O", "P", "Q", "R", "S", "T", "U", "V", "W", "X", "Y", "Z">>
LowerCase == <<"a", "b", "c", "d", "e", "f", "g", "h", "i", "j", "k", "l", "m",
               "n", "o", "p", "q", "r", "s", "t", "u", "v", "w", "x", "y", "z">>
LowerChar(c) ==
    IF \E i \in 1..Len(UpperCase) : UpperCase[i] = c
    THEN LowerCase[CHOOSE i \in 1..Len(UpperCase) : UpperCase[i] = c]
    ELSE c
Lower(text) == [i \in 1..Len(text) |-> LowerChar(text[i])]

\* indicator in error_message
Contains(text, indicator) ==
    \E i \in 0..(Len(text) - Len(indicator)) :
        SubSeq(text, i + 1, i + Len(indicator)) = indicator

\* the classes of requests.exceptions an error of class cls is an instance of
ClassesOf(cls) ==
    CASE cls = "ReadTimeout" -> {"ReadTimeout", "Timeout"}
      [] cls = "ConnectTimeout" -> {"ConnectTimeout", "ConnectionError", "Timeout"}
      [] OTHER -> {cls}

\* isinstance(exception, cls)
IsInstance(e, cls) == cls \in ClassesOf(e.cls)

\* An error is its class, the status code of its response (when it carries a
\* response) and its text, str(exception), as a sequence of characters.
Error(cls, has_response, status_code, text) ==
    [cls |-> cls, has_response |-> has_response, status_code |-> status_code,
     text |-> text]

\* The errors of the model, by name.
ErrorOf(name) ==
    CASE name = "http_500" ->
           Error("HTTPError", TRUE, 500,
                 <<"5", "0", "0", " ", "S", "e", "r", "v", "e", "r", " ", "E", "r", "r", "o", "r">>)
      [] name = "http_429" ->
           Error("HTTPError", TRUE, 429,
                 <<"4", "2", "9", " ", "C", "l", "i", "e", "n", "t", " ", "E", "r", "r", "o", "r">>)
      [] name = "http_400" ->
           Error("HTTPError", TRUE, 400,
                 <<"4", "0", "0", " ", "B", "a", "d", " ", "R", "e", "q", "u", "e", "s", "t">>)
      [] name = "timeout" ->
           Error("Timeout", FALSE, 0,
                 <<"R", "e", "a", "d", " ", "t", "i", "m", "e", "d", " ", "o", "u", "t">>)
      [] name = "throttled" ->
           Error("ValueError", FALSE, 0,
                 <<"R", "e", "q", "u", "e", "s", "t", " ", "T", "H", "R", "O", "T", "T", "L", "E", "D">>)
      [] name = "value_error" ->
           Error("ValueError", FALSE, 0,
                 <<"b", "a", "d", " ", "j", "s", "o", "n">>)
      [] name = "http_404_show_429" ->
           Error("HTTPError", TRUE, 404,
                 <<"4", "0", "4", " ", "N", "o", "t", " ", "F", "o", "u",
                   "n", "d", " ", "f", "o", "r", " ", "u", "r", "l", ":",
                   " ", "/", "s", "h", "o", "w", "s", "/", "4", "2", "9">>)
      [] name = "http_503_throttled" ->
           Error("HTTPError", TRUE, 503,
                 <<"5", "0", "3", " ", "T", "h", "r", "o", "t", "t", "l",
                   "e", "d">>)
      [] name = "http_error_too_many" ->
           Error("HTTPError", FALSE, 0,
                 <<"T", "o", "o", " ", "M", "a", "n", "y", " ", "R", "e",
                   "q", "u", "e", "s", "t", "s">>)
      [] name = "http_error_plain" ->
           Error("HTTPError", FALSE, 0,
                 <<"5", "0", "0", " ", "S", "e", "r", "v", "e", "r", " ",
                   "E", "r", "r", "o", "r">>)
      [] name = "connection_error" ->
           Error("ConnectionError", FALSE, 0,
                 <<"C", "o", "n", "n", "e", "c", "t", "i", "o", "n", " ",
                   "r", "e", "f", "u", "s", "e", "d">>)
      [] name = "connect_timeout" ->
           Error("ConnectTimeout", FALSE, 0,
                 <<"C", "o", "n", "n", "e", "c", "t", " ", "t", "i", "m",
                   "e", "d", " ", "o", "u", "t">>)
      [] name = "read_timeout" ->
           Error("ReadTimeout", FALSE, 0,
                 <<"R", "e", "a", "d", " ", "t", "i", "m", "e", "d", " ",
                   "o", "u", "t">>)
      [] name = "chunked" ->
           Error("ChunkedEncodingError", FALSE, 0,
                 <<"C", "o", "n", "n", "e", "c", "t", "i", "o", "n", " ",
                   "b", "r", "o", "k", "e", "n">>)
      [] name = "quota" ->
           Error("RuntimeError", FALSE, 0,
                 <<"Q", "u", "o", "t", "a", " ", "E", "x", "c", "e", "e",
                   "d", "e", "d">>)
      [] name = "rate_limit" ->
           Error("RuntimeError", FALSE, 0,
                 <<"A", "P", "I", " ", "R", "a", "t", "e", " ", "L", "i",
                   "m", "i", "t", " ", "h", "i", "t">>)

\* the names of the errors of the model
ErrorNames ==
    {"http_500", "http_429", "http_400", "timeout", "throttled", "value_error",
     "http_404_show_429", "http_503_throttled", "http_error_too_many", "http_error_plain",
     "connection_error", "connect_timeout", "read_timeout", "chunked", "quota", "rate_limit"}

----------------------------------------------------------------------------
(* TVMazeRetryHandler *)

\* the operation ids callers use
OpIds == {"tvmaze_api", "shows"}

\* None, for a timestamp
NoTime == -1

\* min(60.0, ...) and self.base_delay_seconds * 30 of calculate_backoff_delay
RateLimitCapSeconds == 60
RateLimitFactor == 30

rate_limit_indicators ==
    {<<"r", "a", "t", "e", " ", "l", "i", "m", "i", "t">>,
     <<"t", "o", "o", " ", "m", "a", "n", "y", " ", "r", "e", "q", "u", "e", "s", "t", "s">>,
     <<"4", "2", "9">>,
     <<"q", "u", "o", "t", "a", " ", "e", "x", "c", "e", "e", "d", "e", "d">>,
     <<"t", "h", "r", "o", "t", "t", "l", "e", "d">>}

\* IsRateLimitError with the text looked at for every error
IsRateLimitErrorAnyText(e) ==
    \/ IsInstance(e, "HTTPError") /\ e.has_response /\ e.status_code = 429
    \/ \E indicator \in rate_limit_indicators : Contains(Lower(e.text), indicator)

\* is_rate_limit_error(exception)
IsRateLimitError(e) ==
    IF IsInstance(e, "HTTPError") /\ e.has_response
    THEN e.status_code = 429
    ELSE \E indicator \in rate_limit_indicators : Contains(Lower(e.text), indicator)

\* IsRetriableError with every HTTP error that carries a response retried
IsRetriableErrorAnyStatus(e) ==
    \/ \E cls \in {"ConnectionError", "Timeout", "ChunkedEncodingError"} :
          IsInstance(e, cls)
    \/ IsInstance(e, "HTTPError") /\ e.has_response
    \/ \E indicator \in rate_limit_indicators : Contains(Lower(e.text), indicator)

\* is_retriable_error(exception)
IsRetriableError(e) ==
    IF IsRateLimitError(e) THEN TRUE
    ELSE IF \E cls \in {"ConnectionError", "Timeout", "ChunkedEncodingError"} :
                IsInstance(e, cls)
         THEN TRUE
    ELSE IF IsInstance(e, "HTTPError") /\ e.has_response
         THEN e.status_code >= 500 \/ e.status_code = 429
    ELSE FALSE

\* CalculateBackoffDelay with the exponential delay left without its cap
CalculateBackoffDelayUncapped(attempt, is_rate_limit) ==
    IF is_rate_limit
    THEN Min(RateLimitCapSeconds, base_delay_seconds * RateLimitFactor)
    ELSE base_delay_seconds * (2 ^ (attempt - 1))

\* calculate_backoff_delay(attempt, is_rate_limit)
CalculateBackoffDelay(attempt, is_rate_limit) ==
    IF is_rate_limit
    THEN Min(RateLimitCapSeconds, base_delay_seconds * RateLimitFactor)
    ELSE Min(base_delay_seconds * (2 ^ (attempt - 1)), max_delay_seconds)

\* the value the defaultdict makes for a key it does not hold yet
DefaultBackoff ==
    [consecutive_failures |-> 0, last_failure_time |-> NoTime, backoff_until |-> NoTime]

\* self.backoff_state[operation_id]: the mapping after the lookup, which
\* inserts the default value for a missing key
Lookup(state, operation_id) ==
    IF operation_id \in DOMAIN state
    THEN state
    ELSE [k \in DOMAIN state \cup {operation_id} |->
             IF k = operation_id THEN DefaultBackoff ELSE state[k]]

\* backoff_state = self.backoff_state[operation_id]: the value looked up
StateOf(state, operation_id) == Lookup(state, operation_id)[operation_id]

\* HandleFailure with one backoff state for all the operation ids
HandleFailureForEveryId(state, operation_id, e, t) ==
    LET found == Lookup(state, operation_id)
        failures == found[operation_id].consecutive_failures + 1
        backoff_seconds == CalculateBackoffDelay(failures, IsRateLimitError(e))
    IN  [k \in OpIds |->
            [consecutive_failures |-> failures,
             last_failure_time |-> t,
             backoff_until |-> t + backoff_seconds]]

\* HandleFailure with the delay of a first failure whatever the count
HandleFailureFirstDelayAlways(state, operation_id, e, t) ==
    LET found == Lookup(state, operation_id)
        failures == found[operation_id].consecutive_failures + 1
        backoff_seconds == CalculateBackoffDelay(1, IsRateLimitError(e))
    IN  [found EXCEPT ![operation_id] =
            [consecutive_failures |-> failures,
             last_failure_time |-> t,
             backoff_until |-> t + backoff_seconds]]

\* HandleFailure starting the count again once the backoff window is over
HandleFailureForgetsOldFailures(state, operation_id, e, t) ==
    LET found == Lookup(state, operation_id)
        over == found[operation_id].backoff_until # NoTime
                /\ found[operation_id].backoff_until <= t
        failures == IF over THEN 1 ELSE found[operation_id].consecutive_failures + 1
        backoff_seconds == CalculateBackoffDelay(failures, IsRateLimitError(e))
    IN  [found EXCEPT ![operation_id] =
            [consecutive_failures |-> failures,
             last_failure_time |-> t,
             backoff_until |-> t + backoff_seconds]]

\* HandleFailure counting a rate-limit failure twice
HandleFailureCountsRateLimitTwice(state, operation_id, e, t) ==
    LET found == Lookup(state, operation_id)
        failures == found[operation_id].consecutive_failures
                    + (IF IsRateLimitError(e) THEN 2 ELSE 1)
        backoff_seconds == CalculateBackoffDelay(failures, IsRateLimitError(e))
    IN  [found EXCEPT ![operation_id] =
            [consecutive_failures |-> failures,
             last_failure_time |-> t,
             backoff_until |-> t + backoff_seconds]]

\* handle_failure(operation_id, exception) at time t: the mapping it leaves
HandleFailure(state, operation_id, e, t) ==
    LET found == Lookup(state, operation_id)
        failures == found[operation_id].consecutive_failures + 1
        backoff_seconds == CalculateBackoffDelay(failures, IsRateLimitError(e))
    IN  [found EXCEPT ![operation_id] =
            [consecutive_failures |-> failures,
             last_failure_time |-> t,
             backoff_until |-> t + backoff_seconds]]

\* HandleSuccess leaving the state of the operation as it was
HandleSuccessKeepsState(state, operation_id) == state

\* HandleSuccess leaving backoff_until as it was
HandleSuccessKeepsBackoffUntil(state, operation_id) ==
    IF operation_id \in DOMAIN state
    THEN [state EXCEPT ![operation_id] =
             [DefaultBackoff EXCEPT !.backoff_until = state[operation_id].backoff_until]]
    ELSE state

\* handle_success(operation_id): the mapping it leaves
HandleSuccess(state, operation_id) ==
    IF operation_id \in DOMAIN state
    THEN [state EXCEPT ![operation_id] = DefaultBackoff]
    ELSE state

\* CheckBackoffWait of a check_backoff that never sleeps
CheckBackoffNeverWaits(state, operation_id, t) == 0

\* check_backoff(operation_id) at time t: the seconds it sleeps
CheckBackoffWait(state, operation_id, t) ==
    LET backoff_until == Lookup(state, operation_id)[operation_id].backoff_until
    IN  IF backoff_until # NoTime /\ t < backoff_until
        THEN backoff_until - t
        ELSE 0

\* get_status(operation_id) at time t: the dictionary it returns.
\* in_backoff_period is `backoff_until and ... and now < backoff_until`, which
\* is None, not False, when backoff_until is None.
HandlerStatus(state, operation_id, t) ==
    LET backoff == StateOf(state, operation_id)
    IN  [operation_id |-> operation_id,
         consecutive_failures |-> backoff.consecutive_failures,
         in_backoff_period |-> IF backoff.backoff_until = NoTime THEN "None"
                               ELSE IF t < backoff.backoff_until THEN "True"
                               ELSE "False",
         backoff_until |-> backoff.backoff_until,
         last_failure_time |-> backoff.last_failure_time,
         max_attempts |-> max_attempts,
         current_time |-> t]

\* the errors callers hand to handle_failure
FailureErrors == {"http_429", "timeout"}

\* the failures in a row a caller of handle_failure goes up to
MaxFailures == 3
\* the calls a caller makes to the backoff tracking of the handler
MaxHandlerCalls == 4
\* the attempt numbers calculate_backoff_delay is called with
MaxAttemptNumber == 8

\* A caller calls is_rate_limit_error(exception).
HandlerIsRateLimitError ==
    /\ pc = "idle"
    /\ \E name \in ErrorNames :
          ret' = [op |-> "is_rate_limit_error", exception |-> name,
                  val |-> IsRateLimitError(ErrorOf(name))]
    /\ UNCHANGED <<now, limiterConfig, limiterVars, retryConfig, handlerVars, callVars>>

\* A caller calls is_retriable_error(exception).
HandlerIsRetriableError ==
    /\ pc = "idle"
    /\ \E name \in ErrorNames :
          ret' = [op |-> "is_retriable_error", exception |-> name,
                  val |-> IsRetriableError(ErrorOf(name))]
    /\ UNCHANGED <<now, limiterConfig, limiterVars, retryConfig, handlerVars, callVars>>

\* A caller calls calculate_backoff_delay(attempt, is_rate_limit).
HandlerCalculateBackoffDelay ==
    /\ pc = "idle"
    /\ \E attempt \in 1..MaxAttemptNumber, is_rate_limit \in BOOLEAN :
          ret' = [op |-> "calculate_backoff_delay", attempt |-> attempt,
                  is_rate_limit |-> is_rate_limit,
                  val |-> CalculateBackoffDelay(attempt, is_rate_limit)]
    /\ UNCHANGED <<now, limiterConfig, limiterVars, retryConfig, handlerVars, callVars>>

\* A caller calls handle_failure(operation_id, exception).
HandlerHandleFailure ==
    /\ pc = "idle"
    /\ calls < MaxHandlerCalls
    /\ calls' = calls + 1
    /\ now <= MaxTime
    /\ \E operation_id \in OpIds, name \in FailureErrors :
          /\ failures_in_a_row[operation_id] < MaxFailures
          /\ backoff_state' = HandleFailure(backoff_state, operation_id, ErrorOf(name), now)
          /\ failures_in_a_row' = [failures_in_a_row EXCEPT ![operation_id] = @ + 1]
          /\ ret' = [op |-> "handle_failure", operation_id |-> operation_id,
                     exception |-> name,
                     before |-> StateOf(backoff_state, operation_id)]
    /\ UNCHANGED <<now, limiterConfig, limiterVars, retryConfig, pc, call, trace>>

\* A caller calls handle_success(operation_id).
HandlerHandleSuccess ==
    /\ pc = "idle"
    /\ calls < MaxHandlerCalls
    /\ calls' = calls + 1
    /\ \E operation_id \in OpIds :
          /\ backoff_state' = HandleSuccess(backoff_state, operation_id)
          /\ failures_in_a_row' = [failures_in_a_row EXCEPT ![operation_id] = 0]
          /\ ret' = [op |-> "handle_success", operation_id |-> operation_id,
                     known |-> operation_id \in DOMAIN backoff_state,
                     before |-> StateOf(backoff_state, operation_id)]
    /\ UNCHANGED <<now, limiterConfig, limiterVars, retryConfig, pc, call, trace>>

\* A caller calls check_backoff(operation_id).
HandlerCheckBackoff ==
    /\ pc = "idle"
    /\ calls < MaxHandlerCalls
    /\ calls' = calls + 1
    /\ now <= MaxTime
    /\ \E operation_id \in OpIds :
          LET wait_time == CheckBackoffWait(backoff_state, operation_id, now)
          IN  /\ backoff_state' = Lookup(backoff_state, operation_id)
              /\ now' = now + wait_time
              /\ ret' = [op |-> "check_backoff", operation_id |-> operation_id,
                         slept |-> wait_time]
    /\ UNCHANGED <<limiterConfig, limiterVars, retryConfig, failures_in_a_row, pc, call, trace>>

\* A caller calls get_status(operation_id) of the handler.
HandlerGetStatus ==
    /\ pc = "idle"
    /\ calls < MaxHandlerCalls
    /\ calls' = calls + 1
    /\ \E operation_id \in OpIds :
          /\ backoff_state' = Lookup(backoff_state, operation_id)
          /\ ret' = [op |-> "retry_get_status",
                     val |-> HandlerStatus(backoff_state, operation_id, now)]
    /\ UNCHANGED <<now, limiterConfig, limiterVars, retryConfig, failures_in_a_row, pc, call, trace>>

----------------------------------------------------------------------------
(* A call of a function wrapped by reliable_api_call(operation_id,          *)
(* max_attempts): rate_limited(with_retry(operation_id, max_attempts)(func)) *)

\* largest max_attempts, configured or given to the wrapper
MaxAttempts == 3
\* wrapped calls start within the first MaxCallTime seconds
MaxCallTime == 91
\* the number of wrapped calls a caller makes
MaxCalls == 2

\* what one invocation of the wrapped work does: it returns, or raises one
\* of these errors
WorkErrors == {"http_500", "http_429", "http_400"}

\* backoff_before is history: the backoff state of the operation id as the
\* call found it
NoCall == [operation_id |-> "", max_attempts |-> 0, attempts |-> 0, attempt |-> 0,
           last_exception |-> "None", backoff_before |-> DefaultBackoff]

Event(ev, arg) == [ev |-> ev, arg |-> arg]

\* The caller invokes the wrapper; rate_limited's wrapper runs
\* self.wait_if_needed().  max_attempts_arg = 0 stands for the wrapper's
\* max_attempts being None or 0, which `or` treats alike.
CallWaitIfNeeded ==
    /\ pc = "idle"
    /\ now <= MaxCallTime
    /\ calls < MaxCalls
    /\ calls' = calls + 1
    /\ \E operation_id \in OpIds, max_attempts_arg \in {0, 1} :
          call' = [NoCall EXCEPT !.operation_id = operation_id,
                                 !.max_attempts = max_attempts_arg,
                                 !.backoff_before = StateOf(backoff_state, operation_id)]
    /\ SetLimiter(Checked)
    /\ LET wait_time == IF WithinLimits(Checked) THEN 0 ELSE TimeUntil(Checked, now)
       IN  /\ now' = now + wait_time
           /\ trace' = <<Event("wait_if_needed", wait_time)>>
    /\ pc' = "record_request"
    /\ ret' = [op |-> "none"]
    /\ UNCHANGED <<limiterConfig, retryConfig, handlerVars>>

\* CallRecordRequest with the wrapper going on to func without recording
CallWithoutRecordRequest ==
    /\ pc = "record_request"
    /\ pc' = "func"
    /\ UNCHANGED <<now, limiterConfig, limiterVars, retryConfig, handlerVars,
                   call, calls, trace, ret>>

\* rate_limited's wrapper runs self.record_request()
CallRecordRequest ==
    /\ pc = "record_request"
    /\ request_times' = Recorded(request_times, now)
    /\ burst_count' = burst_count + 1
    /\ trace' = Append(trace, Event("record_request", now))
    /\ pc' = "func"
    /\ UNCHANGED <<now, limiterConfig, last_burst_reset, retryConfig, handlerVars,
                   call, calls, ret>>

\* Attempts with the loop running once more than asked
AttemptsOneMore(max_attempts_arg) ==
    (IF max_attempts_arg # 0 THEN max_attempts_arg ELSE max_attempts) + 1

\* attempts = max_attempts or self.max_attempts
Attempts(max_attempts_arg) ==
    IF max_attempts_arg # 0 THEN max_attempts_arg ELSE max_attempts

\* rate_limited's wrapper calls func, the with_retry wrapper, which sets
\* attempts and runs self.check_backoff(operation_id); with no attempt to
\* make, `raise last_exception` raises None, a TypeError.
CallCheckBackoff ==
    /\ pc = "func"
    /\ LET attempts == Attempts(call.max_attempts)
           wait_time == CheckBackoffWait(backoff_state, call.operation_id, now)
       IN  /\ backoff_state' = Lookup(backoff_state, call.operation_id)
           /\ UNCHANGED failures_in_a_row
           /\ now' = now + wait_time
           /\ trace' = Append(trace, Event("check_backoff", wait_time))
           /\ call' = [call EXCEPT !.attempts = attempts, !.attempt = 1]
           /\ IF attempts >= 1
              THEN /\ pc' = "work"
                   /\ ret' = ret
              ELSE /\ pc' = "idle"
                   /\ ret' = [op |-> "reliable_api_call", raised |-> "TypeError"]
    /\ UNCHANGED <<limiterConfig, limiterVars, retryConfig, calls>>

\* One turn of the retry loop: func is invoked and returns.
CallWorkReturns ==
    /\ pc = "work"
    /\ trace' = Append(trace, Event("work", "ok"))
    /\ backoff_state' = HandleSuccess(backoff_state, call.operation_id)
    /\ failures_in_a_row' = [failures_in_a_row EXCEPT ![call.operation_id] = 0]
    /\ ret' = [op |-> "reliable_api_call", returned |-> "result"]
    /\ pc' = "idle"
    /\ UNCHANGED <<now, limiterConfig, limiterVars, retryConfig, call, calls>>

\* CallWorkRaises with a retriable error retried whatever the attempt
CallWorkRaisesNeverGivesUp ==
    /\ pc = "work"
    /\ \E name \in WorkErrors :
          LET e == ErrorOf(name)
              raised == Append(trace, Event("work", name))
          IN  IF ~IsRetriableError(e)
              THEN /\ trace' = raised
                   /\ call' = [call EXCEPT !.last_exception = name]
                   /\ ret' = [op |-> "reliable_api_call", raised |-> name]
                   /\ pc' = "idle"
                   /\ UNCHANGED <<now, handlerVars>>
              ELSE LET delay == CalculateBackoffDelay(call.attempt, IsRateLimitError(e))
                   IN  /\ trace' = Append(raised, Event("sleep", delay))
                       /\ now' = now + delay
                       /\ call' = [call EXCEPT !.last_exception = name,
                                               !.attempt = call.attempt + 1]
                       /\ UNCHANGED <<handlerVars, ret, pc>>
    /\ UNCHANGED <<limiterConfig, limiterVars, retryConfig, calls>>

\* CallWorkRaises with handle_failure run for every error of the last
\* attempt and for every error that is not retriable
CallWorkRaisesCountsEveryError ==
    /\ pc = "work"
    /\ \E name \in WorkErrors :
          LET e == ErrorOf(name)
              raised == Append(trace, Event("work", name))
          IN  IF IsRetriableError(e) /\ call.attempt < call.attempts
              THEN LET delay == CalculateBackoffDelay(call.attempt, IsRateLimitError(e))
                   IN  /\ trace' = Append(raised, Event("sleep", delay))
                       /\ now' = now + delay
                       /\ call' = [call EXCEPT !.last_exception = name,
                                               !.attempt = call.attempt + 1]
                       /\ UNCHANGED <<handlerVars, ret, pc>>
              ELSE /\ trace' = raised
                   /\ backoff_state' = HandleFailure(backoff_state, call.operation_id, e, now)
                   /\ failures_in_a_row' =
                         [failures_in_a_row EXCEPT ![call.operation_id] = @ + 1]
                   /\ call' = [call EXCEPT !.last_exception = name]
                   /\ ret' = [op |-> "reliable_api_call", raised |-> name]
                   /\ pc' = "idle"
                   /\ UNCHANGED now
    /\ UNCHANGED <<limiterConfig, limiterVars, retryConfig, calls>>

\* One turn of the retry loop: func is invoked and raises e.
CallWorkRaises ==
    /\ pc = "work"
    /\ \E name \in WorkErrors :
          LET e == ErrorOf(name)
              raised == Append(trace, Event("work", name))
          IN  IF ~IsRetriableError(e)
              THEN \* raise
                   /\ trace' = raised
                   /\ call' = [call EXCEPT !.last_exception = name]
                   /\ ret' = [op |-> "reliable_api_call", raised |-> name]
                   /\ pc' = "idle"
                   /\ UNCHANGED <<now, handlerVars>>
              ELSE IF call.attempt < call.attempts
              THEN \* time.sleep(delay), then the next attempt
                   LET delay == CalculateBackoffDelay(call.attempt, IsRateLimitError(e))
                   IN  /\ trace' = Append(raised, Event("sleep", delay))
                       /\ now' = now + delay
                       /\ call' = [call EXCEPT !.last_exception = name,
                                               !.attempt = call.attempt + 1]
                       /\ UNCHANGED <<handlerVars, ret, pc>>
              ELSE \* handle_failure, the loop ends, raise last_exception
                   /\ trace' = raised
                   /\ backoff_state' = HandleFailure(backoff_state, call.operation_id, e, now)
                   /\ failures_in_a_row' =
                         [failures_in_a_row EXCEPT ![call.operation_id] = @ + 1]
                   /\ call' = [call EXCEPT !.last_exception = name]
                   /\ ret' = [op |-> "reliable_api_call", raised |-> name]
                   /\ pc' = "idle"
                   /\ UNCHANGED now
    /\ UNCHANGED <<limiterConfig, limiterVars, retryConfig, calls>>

----------------------------------------------------------------------------
(* A call of a plain function wrapped by rate_limited(func) *)

\* rate_limited's wrapper runs self.wait_if_needed()
RateLimitedWaitIfNeeded ==
    /\ pc = "idle"
    /\ now <= MaxTime
    /\ Len(request_times) + 2 <= MaxTracked
    /\ SetLimiter(Checked)
    /\ LET wait_time == IF WithinLimits(Checked) THEN 0 ELSE TimeUntil(Checked, now)
       IN  /\ now' = now + wait_time
           /\ trace' = <<Event("wait_if_needed", wait_time)>>
    /\ pc' = "record_request"
    /\ ret' = [op |-> "none"]
    /\ UNCHANGED <<limiterConfig, retryConfig, handlerVars, call, calls>>

\* rate_limited's wrapper calls func, which returns
RateLimitedFunc ==
    /\ pc = "func"
    /\ trace' = Append(trace, Event("work", "ok"))
    /\ ret' = [op |-> "rate_limited", returned |-> "result"]
    /\ pc' = "idle"
    /\ UNCHANGED <<now, limiterConfig, limiterVars, retryConfig, handlerVars, call, calls>>


----------------------------------------------------------------------------
(* TVMazeAPI *)

\* A decoded JSON value: its Python type and its items, pairs of a key (an
\* index for a list, "" for a scalar) and a scalar.
Value(type, items) == [type |-> type, items |-> items]

\* None, and the body response.json() cannot decode
None == Value("NoneType", {})
InvalidBody == Value("not JSON", {})

\* the scalars of the model and their Python types
Scalars == {"1678886400", "1678886400.5", "soon", "True"}
TypeOfScalar(x) ==
    CASE x = "1678886400" -> "int"
      [] x = "1678886400.5" -> "float"
      [] x = "soon" -> "str"
      [] x = "True" -> "bool"

\* isinstance(x, int): bool is a subclass of int
IsInstanceInt(x) == TypeOfScalar(x) \in {"int", "bool"}

\* isinstance(value, list) and isinstance(value, dict)
IsInstanceOf(value, type) == value.type = type

\* the mappings from the show ids "1" and "2", each absent or with a scalar
Mappings ==
    LET entry(k, x) == IF x = "absent" THEN {} ELSE {<<k, x>>}
    IN  {Value("dict", entry("1", a) \cup entry("2", b)) :
            a \in Scalars \cup {"absent"}, b \in Scalars \cup {"absent"}}

\* what the body of a response decodes to
Bodies ==
    Mappings \cup {InvalidBody, None,
                   Value("list", {}), Value("list", {<<"0", "soon">>}),
                   Value("int", {<<"", "1678886400">>}),
                   Value("str", {<<"", "soon">>})}

StatusCodes == {200, 400, 404, 429, 500}
GetErrors == {"ConnectionError", "Timeout", "RetryError"}

\* What self.session.get(url, params=req_params, timeout=30) does: it raises a
\* RequestException, or it returns a response.
GetOutcomes ==
    {[exc |-> e, status_code |-> 0, body |-> InvalidBody] : e \in GetErrors}
    \cup {[exc |-> "None", status_code |-> code, body |-> b] :
             code \in StatusCodes, b \in Bodies}

\* params, when given, as pairs of a key and a value
NoParams == [given |-> FALSE, items |-> {}]
Params(items) == [given |-> TRUE, items |-> items]

\* req_params = params or {}
ReqParams(params) == IF params.given THEN params.items ELSE {}

\* response.raise_for_status() raises HTTPError for a 4xx or 5xx status
RaiseForStatusRaises(status_code) == status_code >= 400 /\ status_code < 600

\* what a function has done: the calls it made, and the value it returned or
\* the exception it raised
Done(events, raised, val) == [events |-> events, raised |-> raised, val |-> val]

\* MakeRequest with raise_for_status() called before the status is looked at
MakeRequestChecksStatusFirst(endpoint, params, outcome) ==
    LET get == <<Event("get", [endpoint |-> endpoint, params |-> ReqParams(params)])>>
    IN  IF outcome.exc # "None" THEN Done(get, outcome.exc, None)
        ELSE IF RaiseForStatusRaises(outcome.status_code)
             THEN Done(get \o <<Event("raise_for_status", "")>>, "HTTPError", None)
        ELSE IF outcome.status_code = 404
             THEN Done(get \o <<Event("raise_for_status", "")>>, "None", None)
        ELSE IF outcome.body = InvalidBody
             THEN Done(get \o <<Event("raise_for_status", ""), Event("json", "")>>,
                       "ValueError", None)
        ELSE Done(get \o <<Event("raise_for_status", ""), Event("json", "")>>,
                  "None", outcome.body)

\* MakeRequest with a failed request answered by None
MakeRequestSwallowsErrors(endpoint, params, outcome) ==
    LET get == <<Event("get", [endpoint |-> endpoint, params |-> ReqParams(params)])>>
    IN  IF outcome.exc # "None" THEN Done(get, "None", None)
        ELSE IF outcome.status_code = 404 THEN Done(get, "None", None)
        ELSE IF RaiseForStatusRaises(outcome.status_code)
             THEN Done(get \o <<Event("raise_for_status", "")>>, "None", None)
        ELSE IF outcome.body = InvalidBody
             THEN Done(get \o <<Event("raise_for_status", ""), Event("json", "")>>,
                       "None", None)
        ELSE Done(get \o <<Event("raise_for_status", ""), Event("json", "")>>,
                  "None", outcome.body)

\* _make_request(endpoint, params), the GET doing `outcome`
MakeRequest(endpoint, params, outcome) ==
    LET get == <<Event("get", [endpoint |-> endpoint, params |-> ReqParams(params)])>>
    IN  IF outcome.exc # "None" THEN Done(get, outcome.exc, None)
        ELSE IF outcome.status_code = 404 THEN Done(get, "None", None)
        ELSE IF RaiseForStatusRaises(outcome.status_code)
             THEN Done(get \o <<Event("raise_for_status", "")>>, "HTTPError", None)
        ELSE IF outcome.body = InvalidBody
             THEN Done(get \o <<Event("raise_for_status", ""), Event("json", "")>>,
                       "ValueError", None)
        ELSE Done(get \o <<Event("raise_for_status", ""), Event("json", "")>>,
                  "None", outcome.body)

\* ShapeChecked with every response handed on
ShapeUnchecked(result, expected) == result

\* if result is not None and not isinstance(result, expected): return None
\* return result
ShapeChecked(result, expected) ==
    IF result # None /\ ~IsInstanceOf(result, expected) THEN None ELSE result

\* ValidUpdates without the check of the timestamps
ValidUpdatesUnfiltered(updates) == updates

\* {show_id: ts for show_id, ts in updates.items() if isinstance(ts, int)}
ValidUpdates(updates) ==
    Value("dict", {item \in updates.items : IsInstanceInt(item[2])})

SUPPORTED_UPDATE_PERIODS == {"day", "week", "month"}

\* the periods, show ids and pages callers ask for
Periods == {"day", "week", "month", "year", "Day"}
Ids == {"1", "429"}

\* the endpoints and params _make_request is called with directly
Endpoints == {<<"/shows">>, <<"/updates/shows">>, <<"/shows/", "1">>}
ParamsGiven == {NoParams, Params({}), Params({<<"since", "day">>})}

\* A function of TVMazeAPI is called by a caller that holds no earlier result;
\* it leaves the calls it made in trace and its outcome in ret.
Api(op, args, done) ==
    /\ pc = "idle"
    /\ ret.op = "none"
    /\ trace' = done.events
    /\ ret' = [op |-> op, args |-> args, raised |-> done.raised, val |-> done.val]
    /\ UNCHANGED <<now, limiterConfig, limiterVars, retryConfig, handlerVars, pc, call, calls>>

\* The caller has looked at what the function returned or raised.
ApiCallerGoesOn ==
    /\ pc = "idle"
    /\ ret.op # "none"
    /\ trace' = <<>>
    /\ ret' = [op |-> "none"]
    /\ UNCHANGED <<now, limiterConfig, limiterVars, retryConfig, handlerVars, pc, call, calls>>

\* a getter: one _make_request, then the check of the shape
Getter(op, endpoint, params, expected, outcome) ==
    LET made == MakeRequest(endpoint, params, outcome)
        events == <<Event("_make_request", [endpoint |-> endpoint, params |-> params])>>
                  \o made.events
    IN  Api(op, [endpoint |-> endpoint, outcome |-> outcome],
            IF made.raised # "None" THEN Done(events, made.raised, None)
            ELSE Done(events, "None", ShapeChecked(made.val, expected)))

\* _make_request(endpoint, params)
ApiMakeRequest ==
    /\ pc = "idle"
    /\ \E endpoint \in Endpoints, params \in ParamsGiven, outcome \in GetOutcomes :
           Api("_make_request", [endpoint |-> endpoint, params |-> params, outcome |-> outcome],
               MakeRequest(endpoint, params, outcome))

\* get_shows(page)
GetShows ==
    /\ pc = "idle"
    /\ \E page \in {"0", "1"}, outcome \in GetOutcomes :
           Getter("get_shows", <<"/shows">>, Params({<<"page", page>>}), "list", outcome)

\* get_show_details(show_id, embed)
GetShowDetails ==
    /\ pc = "idle"
    /\ \E show_id \in Ids, embed \in {"None", "seasons"}, outcome \in GetOutcomes :
           Getter("get_show_details", <<"/shows/", show_id>>,
                  Params(IF embed # "None" THEN {<<"embed[]", embed>>} ELSE {}),
                  "dict", outcome)

\* get_seasons(show_id)
GetSeasons ==
    /\ pc = "idle"
    /\ \E show_id \in Ids, outcome \in GetOutcomes :
           Getter("get_seasons", <<"/shows/", show_id, "/seasons">>, NoParams, "list", outcome)

\* get_episodes(show_id)
GetEpisodes ==
    /\ pc = "idle"
    /\ \E show_id \in Ids, outcome \in GetOutcomes :
           Getter("get_episodes", <<"/shows/", show_id, "/episodes">>, NoParams, "list", outcome)

\* get_network(network_id)
GetNetwork ==
    /\ pc = "idle"
    /\ \E network_id \in Ids, outcome \in GetOutcomes :
           Getter("get_network", <<"/networks/", network_id>>, NoParams, "dict", outcome)

\* get_webchannel(webchannel_id)
GetWebchannel ==
    /\ pc = "idle"
    /\ \E webchannel_id \in Ids, outcome \in GetOutcomes :
           Getter("get_webchannel", <<"/webchannels/", webchannel_id>>, NoParams, "dict", outcome)

\* get_show_updates(period)
GetShowUpdates ==
    /\ pc = "idle"
    /\ \E period \in Periods, outcome \in GetOutcomes :
           LET endpoint == <<"/updates/shows">>
               params == Params({<<"since", period>>})
               made == MakeRequest(endpoint, params, outcome)
               events == <<Event("_make_request", [endpoint |-> endpoint, params |-> params])>>
                         \o made.events
           IN  Api("get_show_updates", [period |-> period, outcome |-> outcome],
                   IF period \notin SUPPORTED_UPDATE_PERIODS THEN Done(<<>>, "None", None)
                   ELSE IF made.raised # "None" THEN Done(events, made.raised, None)
                   ELSE IF made.val = None THEN Done(events, "None", Value("dict", {}))
                   ELSE IF ~IsInstanceOf(made.val, "dict") THEN Done(events, "None", None)
                   ELSE Done(events, "None", ValidUpdates(made.val)))

----------------------------------------------------------------------------

\* TVMazeRateLimiter.__init__
Init ==
    /\ now = 0
    /\ requests_per_minute \in 1..MaxRpm
    /\ burst_requests \in 1..MaxBurst
    /\ request_times = <<>>
    /\ burst_count = 0
    /\ last_burst_reset = 0
    /\ max_attempts \in 0..MaxAttempts
    /\ base_delay_seconds \in BaseDelays
    /\ max_delay_seconds \in MaxDelays
    /\ backoff_state = <<>>
    /\ failures_in_a_row = [operation_id \in OpIds |-> 0]
    /\ pc = "idle"
    /\ call = NoCall
    /\ calls = 0
    /\ trace = <<>>
    /\ ret = [op |-> "none"]

\* A caller using the limiter's methods directly.
NextLimiter ==
    \/ Tick
    \/ CanMakeRequest
    \/ RecordRequest
    \/ TimeUntilNextRequest
    \/ WaitIfNeeded
    \/ GetStatus

\* the limiter alone: the retry handler keeps its default configuration
InitLimiter ==
    /\ Init
    /\ max_attempts = 3
    /\ base_delay_seconds = 1
    /\ max_delay_seconds = 60

SpecLimiter == InitLimiter /\ [][NextLimiter]_vars

\* A caller of plain functions wrapped by rate_limited.
NextRateLimited ==
    \/ Tick
    \/ RateLimitedWaitIfNeeded
    \/ CallRecordRequest
    \/ RateLimitedFunc

SpecRateLimited == InitLimiter /\ [][NextRateLimited]_vars

\* A caller of functions wrapped by reliable_api_call.
Next ==
    \/ Tick
    \/ CallWaitIfNeeded
    \/ CallRecordRequest
    \/ CallCheckBackoff
    \/ CallWorkReturns
    \/ CallWorkRaises

\* the limiter the calls go through is built with requests_per_minute = 2 and
\* burst_requests = 2, the handler with base_delay_seconds = 1
InitCalls ==
    /\ Init
    /\ requests_per_minute = 2
    /\ burst_requests = 2
    /\ base_delay_seconds = 1

Spec == InitCalls /\ [][Next]_vars

\* The same caller with the default max_delay_seconds, when every sleep ends
\* and every invocation of the work returns or raises: a step of a call that
\* can be taken is taken.
InitTerminates == InitCalls /\ max_delay_seconds = 60

SpecTerminates ==
    /\ InitTerminates
    /\ [][Next]_vars
    /\ WF_vars(CallRecordRequest)
    /\ WF_vars(CallCheckBackoff)
    /\ WF_vars(CallWorkReturns \/ CallWorkRaises)

\* A caller using the retry handler's backoff tracking directly.
NextHandler ==
    \/ Tick
    \/ HandlerHandleFailure
    \/ HandlerHandleSuccess
    \/ HandlerCheckBackoff
    \/ HandlerGetStatus

\* the handler alone: the limiter is built with requests_per_minute = 2 and
\* burst_requests = 2, the handler with the default max_attempts and
\* base_delay_seconds
InitHandler ==
    /\ Init
    /\ requests_per_minute = 2
    /\ burst_requests = 2
    /\ max_attempts = 3
    /\ base_delay_seconds = 1

SpecHandler == InitHandler /\ [][NextHandler]_vars

\* A caller of the handler's functions of an error and of an attempt number.
NextClassify ==
    \/ HandlerIsRateLimitError
    \/ HandlerIsRetriableError
    \/ HandlerCalculateBackoffDelay

\* the handler is built with any of the delays
InitClassify ==
    /\ Init
    /\ requests_per_minute = 2
    /\ burst_requests = 2
    /\ max_attempts = 3

SpecClassify == InitClassify /\ [][NextClassify]_vars

\* A caller of TVMazeAPI.
NextApi ==
    \/ ApiCallerGoesOn
    \/ ApiMakeRequest
    \/ GetShows
    \/ GetShowDetails
    \/ GetSeasons
    \/ GetEpisodes
    \/ GetNetwork
    \/ GetWebchannel
    \/ GetShowUpdates

\* the client under test is used with the default handler and limiter
InitApi == InitHandler /\ max_delay_seconds = 60

SpecApi == InitApi /\ [][NextApi]_vars

----------------------------------------------------------------------------
(* A call of a function wrapped by with_retry(operation_id, max_attempts,  *)
(* exception_types)                                                        *)

\* the tuples of classes given as exception_types; (Exception,) is the default
ExceptionTypes == {{"Exception"}, {"HTTPError"}, {"HTTPError", "ConnectionError"}}

\* what the work wrapped by with_retry raises
RetryErrors == {"http_500", "http_400", "timeout"}

\* Caught with every error taken for an instance of exception_types
CaughtWhatever(e, exception_types) == TRUE

\* `except exception_types as e`: every error of the model is an Exception
Caught(e, exception_types) ==
    \E cls \in exception_types : cls = "Exception" \/ IsInstance(e, cls)

\* The caller invokes the wrapper of with_retry.
WithRetryCalled ==
    /\ pc = "idle"
    /\ now <= MaxCallTime
    /\ calls < MaxCalls
    /\ calls' = calls + 1
    /\ \E operation_id \in OpIds, max_attempts_arg \in {0, 2},
          exception_types \in ExceptionTypes :
          call' = [operation_id |-> operation_id, max_attempts |-> max_attempts_arg,
                   attempts |-> 0, attempt |-> 0, last_exception |-> "None",
                   backoff_before |-> StateOf(backoff_state, operation_id),
                   exception_types |-> exception_types]
    /\ trace' = <<>>
    /\ pc' = "func"
    /\ ret' = [op |-> "none"]
    /\ UNCHANGED <<now, limiterConfig, limiterVars, retryConfig, handlerVars>>

\* One turn of the retry loop: func is invoked and raises.  An error that
\* `except exception_types` does not catch leaves the wrapper as it is.
WithRetryWorkRaises ==
    /\ pc = "work"
    /\ \E name \in RetryErrors :
          LET e == ErrorOf(name)
              raised == Append(trace, Event("work", name))
          IN  IF ~Caught(e, call.exception_types) \/ ~IsRetriableError(e)
              THEN \* not caught, or caught and raised again
                   /\ trace' = raised
                   /\ call' = [call EXCEPT !.last_exception =
                                  IF Caught(e, call.exception_types) THEN name ELSE @]
                   /\ ret' = [op |-> "with_retry", raised |-> name]
                   /\ pc' = "idle"
                   /\ UNCHANGED <<now, handlerVars>>
              ELSE IF call.attempt < call.attempts
              THEN \* time.sleep(delay), then the next attempt
                   LET delay == CalculateBackoffDelay(call.attempt, IsRateLimitError(e))
                   IN  /\ trace' = Append(raised, Event("sleep", delay))
                       /\ now' = now + delay
                       /\ call' = [call EXCEPT !.last_exception = name,
                                               !.attempt = call.attempt + 1]
                       /\ UNCHANGED <<handlerVars, ret, pc>>
              ELSE \* handle_failure, the loop ends, raise last_exception
                   /\ trace' = raised
                   /\ backoff_state' = HandleFailure(backoff_state, call.operation_id, e, now)
                   /\ failures_in_a_row' =
                         [failures_in_a_row EXCEPT ![call.operation_id] = @ + 1]
                   /\ call' = [call EXCEPT !.last_exception = name]
                   /\ ret' = [op |-> "with_retry", raised |-> name]
                   /\ pc' = "idle"
                   /\ UNCHANGED now
    /\ UNCHANGED <<limiterConfig, limiterVars, retryConfig, calls>>

\* A caller of functions wrapped by with_retry alone.
NextWithRetry ==
    \/ Tick
    \/ WithRetryCalled
    \/ CallCheckBackoff
    \/ CallWorkReturns
    \/ WithRetryWorkRaises

\* the handler is built with the default max_attempts, base_delay_seconds and
\* max_delay_seconds
InitWithRetry == InitHandler /\ max_delay_seconds = 60

SpecWithRetry == InitWithRetry /\ [][NextWithRetry]_vars

----------------------------------------------------------------------------
(* Threads sharing one limiter through rate_limited(func) *)

\* the threads of the caller
Threads == {"t1", "t2"}
\* the number of calls of the wrapper the threads make together
MaxThreadCalls == 3

\* A thread outside the wrapper.  passed tells whether its last
\* wait_if_needed() found can_make_request() true, checked_at when it checked;
\* over is history: whether a limit was already reached when it recorded.
ThreadIdle == [pc |-> "idle", passed |-> FALSE, checked_at |-> 0, wake_at |-> 0,
               over |-> FALSE]

\* a limit of the limiter is reached in its present state
LimitReached ==
    \/ Len(request_times) >= requests_per_minute
    \/ burst_count >= burst_requests

\* Without synchronization: a thread enters the wrapper and runs
\* wait_if_needed() up to its sleep.
ThreadWaitIfNeeded ==
    /\ pc = "idle"
    /\ ~call.atomic
    /\ now <= MaxTime
    /\ calls < MaxThreadCalls
    /\ calls' = calls + 1
    /\ SetLimiter(Checked)
    /\ \E t \in Threads :
          /\ call.threads[t].pc = "idle"
          /\ call' = [call EXCEPT !.threads[t] =
                         [pc |-> IF WithinLimits(Checked) THEN "record_request" ELSE "sleep",
                          passed |-> WithinLimits(Checked),
                          checked_at |-> now,
                          wake_at |-> now + (IF WithinLimits(Checked) THEN 0
                                             ELSE TimeUntil(Checked, now)),
                          over |-> FALSE]]
    /\ UNCHANGED <<now, limiterConfig, retryConfig, handlerVars, pc, trace, ret>>

\* time.sleep(wait_time) of a thread ends
ThreadSleepEnds ==
    /\ pc = "idle"
    /\ \E t \in Threads :
          /\ call.threads[t].pc = "sleep"
          /\ now' = Max(now, call.threads[t].wake_at)
          /\ call' = [call EXCEPT !.threads[t].pc = "record_request"]
    /\ UNCHANGED <<limiterConfig, limiterVars, retryConfig, handlerVars, pc, calls,
                   trace, ret>>

\* a thread runs self.record_request()
ThreadRecordRequest ==
    /\ pc = "idle"
    /\ \E t \in Threads :
          /\ call.threads[t].pc = "record_request"
          /\ call' = [call EXCEPT !.threads[t].pc = "func",
                                  !.threads[t].over = LimitReached]
    /\ request_times' = Recorded(request_times, now)
    /\ burst_count' = burst_count + 1
    /\ UNCHANGED <<now, limiterConfig, last_burst_reset, retryConfig, handlerVars,
                   pc, calls, trace, ret>>

\* With the check and the record made one step by the caller's lock: a thread
\* runs wait_if_needed(), its sleep included, and record_request() while no
\* other thread touches the limiter.
ThreadWaitAndRecord ==
    /\ pc = "idle"
    /\ call.atomic
    /\ now <= MaxTime
    /\ calls < MaxThreadCalls
    /\ calls' = calls + 1
    /\ LET wait_time == IF WithinLimits(Checked) THEN 0 ELSE TimeUntil(Checked, now)
       IN  /\ now' = now + wait_time
           /\ request_times' = Recorded(Checked.request_times, now + wait_time)
           /\ burst_count' = Checked.burst_count + 1
           /\ last_burst_reset' = Checked.last_burst_reset
           /\ \E t \in Threads :
                 /\ call.threads[t].pc = "idle"
                 /\ call' = [call EXCEPT !.threads[t] =
                                [pc |-> "func",
                                 passed |-> WithinLimits(Checked),
                                 checked_at |-> now,
                                 wake_at |-> now + wait_time,
                                 over |-> \/ Len(Checked.request_times) >= requests_per_minute
                                          \/ Checked.burst_count >= burst_requests]]
    /\ UNCHANGED <<limiterConfig, retryConfig, handlerVars, pc, trace, ret>>

\* func returns and the thread leaves the wrapper
ThreadFunc ==
    /\ pc = "idle"
    /\ \E t \in Threads :
          /\ call.threads[t].pc = "func"
          /\ call' = [call EXCEPT !.threads[t].pc = "idle"]
    /\ UNCHANGED <<now, limiterConfig, limiterVars, retryConfig, handlerVars, pc,
                   calls, trace, ret>>

\* Two threads calling functions wrapped by rate_limited of one limiter.
NextThreads ==
    \/ Tick
    \/ ThreadWaitIfNeeded
    \/ ThreadSleepEnds
    \/ ThreadRecordRequest
    \/ ThreadWaitAndRecord
    \/ ThreadFunc

\* the threads share a limiter just built; they synchronize around the check
\* and the record, or they do not
InitThreads ==
    /\ now = 0
    /\ requests_per_minute \in 1..MaxRpm
    /\ burst_requests \in 1..MaxBurst
    /\ request_times = <<>>
    /\ burst_count = 0
    /\ last_burst_reset = 0
    /\ max_attempts = 3
    /\ base_delay_seconds = 1
    /\ max_delay_seconds = 60
    /\ backoff_state = <<>>
    /\ failures_in_a_row = [operation_id \in OpIds |-> 0]
    /\ pc = "idle"
    /\ \E atomic \in BOOLEAN :
          call = [atomic |-> atomic, threads |-> [t \in Threads |-> ThreadIdle]]
    /\ calls = 0
    /\ trace = <<>>
    /\ ret = [op |-> "none"]

SpecThreads == InitThreads /\ [][NextThreads]_vars

----------------------------------------------------------------------------
(* Threads sharing one retry handler: handle_failure and handle_success *)

\* A thread outside the handler.  Inside handle_failure its local variable
\* backoff_state refers to the record of the mapping (attached) or, once
\* handle_success has put a new record in the mapping, to the record that
\* was replaced (rec); loaded is the operand of += it has read.
HandlerThreadIdle ==
    [pc |-> "idle", operation_id |-> "", exception |-> "None", attached |-> TRUE,
     rec |-> DefaultBackoff, loaded |-> 0]

\* the record the local variable backoff_state of thread t refers to
Referred(t) ==
    IF call.threads[t].attached
    THEN backoff_state[call.threads[t].operation_id]
    ELSE call.threads[t].rec

\* a store into the record the local variable of thread t refers to
StoreReferred(t, rec, thread) ==
    IF call.threads[t].attached
    THEN /\ backoff_state' = [backoff_state EXCEPT ![call.threads[t].operation_id] = rec]
         /\ call' = [call EXCEPT !.threads[t] = thread]
    ELSE /\ backoff_state' = backoff_state
         /\ call' = [call EXCEPT !.threads[t] = [thread EXCEPT !.rec = rec]]

\* some other thread is inside handle_failure(operation_id)
OthersInside(t, operation_id) ==
    \E u \in Threads \ {t} :
        call.threads[u].pc # "idle" /\ call.threads[u].operation_id = operation_id

\* handle_failure(operation_id, exception) begins:
\* backoff_state = self.backoff_state[operation_id]
FailureLookup ==
    /\ pc = "idle"
    /\ calls < MaxThreadCalls
    /\ calls' = calls + 1
    /\ \E t \in Threads, operation_id \in OpIds, name \in FailureErrors :
          /\ call.threads[t].pc = "idle"
          /\ backoff_state' = Lookup(backoff_state, operation_id)
          /\ call' = [call EXCEPT
                         !.threads[t] = [HandlerThreadIdle EXCEPT
                                            !.pc = "load",
                                            !.operation_id = operation_id,
                                            !.exception = name],
                         !.raced[operation_id] = @ \/ OthersInside(t, operation_id)]
    /\ UNCHANGED <<now, limiterConfig, limiterVars, retryConfig, failures_in_a_row,
                   pc, trace, ret>>

\* backoff_state['consecutive_failures'] += 1: the value is read
FailureLoad ==
    /\ pc = "idle"
    /\ \E t \in Threads :
          /\ call.threads[t].pc = "load"
          /\ call' = [call EXCEPT !.threads[t].pc = "store",
                                  !.threads[t].loaded = Referred(t).consecutive_failures]
    /\ UNCHANGED <<now, limiterConfig, limiterVars, retryConfig, handlerVars, pc, calls,
                   trace, ret>>

\* backoff_state['consecutive_failures'] += 1: the sum is stored
FailureStore ==
    /\ pc = "idle"
    /\ \E t \in Threads :
          /\ call.threads[t].pc = "store"
          /\ StoreReferred(t,
                [Referred(t) EXCEPT !.consecutive_failures = call.threads[t].loaded + 1],
                [call.threads[t] EXCEPT !.pc = "backoff"])
    /\ UNCHANGED <<now, limiterConfig, limiterVars, retryConfig, failures_in_a_row, pc,
                   calls, trace, ret>>

\* the rest of handle_failure: last_failure_time, the delay for the count
\* the record holds now, backoff_until; the call returns
FailureBackoff ==
    /\ pc = "idle"
    /\ \E t \in Threads :
          /\ call.threads[t].pc = "backoff"
          /\ LET e == ErrorOf(call.threads[t].exception)
                 backoff_seconds ==
                     CalculateBackoffDelay(Referred(t).consecutive_failures,
                                           IsRateLimitError(e))
             IN  StoreReferred(t,
                    [Referred(t) EXCEPT !.last_failure_time = now,
                                        !.backoff_until = now + backoff_seconds],
                    [call.threads[t] EXCEPT !.pc = "idle"])
          /\ failures_in_a_row' =
                [failures_in_a_row EXCEPT ![call.threads[t].operation_id] = @ + 1]
    /\ UNCHANGED <<now, limiterConfig, limiterVars, retryConfig, pc, calls, trace, ret>>

\* handle_success(operation_id): a new record takes the place of the one in
\* the mapping, which the threads inside handle_failure go on referring to
ThreadHandleSuccess ==
    /\ pc = "idle"
    /\ calls < MaxThreadCalls
    /\ calls' = calls + 1
    /\ \E t \in Threads, operation_id \in OpIds :
          /\ call.threads[t].pc = "idle"
          /\ backoff_state' = HandleSuccess(backoff_state, operation_id)
          /\ failures_in_a_row' = [failures_in_a_row EXCEPT ![operation_id] = 0]
          /\ call' = [call EXCEPT
                         !.threads = [u \in Threads |->
                             IF /\ u # t
                                /\ call.threads[u].pc # "idle"
                                /\ call.threads[u].operation_id = operation_id
                                /\ call.threads[u].attached
                             THEN [call.threads[u] EXCEPT
                                      !.attached = FALSE,
                                      !.rec = backoff_state[operation_id]]
                             ELSE call.threads[u]],
                         !.raced[operation_id] = @ \/ OthersInside(t, operation_id)]
    /\ UNCHANGED <<now, limiterConfig, limiterVars, retryConfig, pc, trace, ret>>

\* Two threads reporting failures and successes to one handler, within one
\* second.
NextHandlerThreads ==
    \/ FailureLookup
    \/ FailureLoad
    \/ FailureStore
    \/ FailureBackoff
    \/ ThreadHandleSuccess

\* raced is history: whether a call for the operation id has begun while
\* another thread was inside handle_failure for it
InitHandlerThreads ==
    /\ now = 0
    /\ requests_per_minute = 2
    /\ burst_requests = 2
    /\ request_times = <<>>
    /\ burst_count = 0
    /\ last_burst_reset = 0
    /\ max_attempts = 3
    /\ base_delay_seconds = 1
    /\ max_delay_seconds = 60
    /\ backoff_state = <<>>
    /\ failures_in_a_row = [operation_id \in OpIds |-> 0]
    /\ pc = "idle"
    /\ call = [threads |-> [t \in Threads |-> HandlerThreadIdle],
               raced |-> [operation_id \in OpIds |-> FALSE]]
    /\ calls = 0
    /\ trace = <<>>
    /\ ret = [op |-> "none"]

SpecHandlerThreads == InitHandlerThreads /\ [][NextHandlerThreads]_vars

----------------------------------------------------------------------------
(* TVMazeReliabilityManager.is_healthy *)

\* the 60 of rate_status['time_until_next_request'] < 60
HealthyWaitSeconds == 60
\* the 5 of retry_status['consecutive_failures'] < 5
ExcessiveFailures == 5
\* the number of wrapped calls a caller of the manager makes
MaxManagerCalls == 6

\* Healthy with five failures still counted as not excessive
HealthyUpToFive(can_make_request, time_until_next_request, consecutive_failures) ==
    /\ can_make_request \/ time_until_next_request < HealthyWaitSeconds
    /\ consecutive_failures <= ExcessiveFailures

\* can_make_requests and not_failing_excessively
Healthy(can_make_request, time_until_next_request, consecutive_failures) ==
    /\ can_make_request \/ time_until_next_request < HealthyWaitSeconds
    /\ consecutive_failures < ExcessiveFailures

\* is_healthy(operation_id): rate_limiter.get_status(), which checks the
\* limiter, then retry_handler.get_status(operation_id), which looks the
\* operation up.
IsHealthy ==
    /\ pc = "idle"
    /\ SetLimiter(Checked)
    /\ \E operation_id \in OpIds :
          /\ backoff_state' = Lookup(backoff_state, operation_id)
          /\ ret' = [op |-> "is_healthy", operation_id |-> operation_id,
                     val |-> Healthy(WithinLimits(Checked), TimeUntil(Checked, now),
                                     HandlerStatus(backoff_state, operation_id, now)
                                         .consecutive_failures)]
    /\ UNCHANGED <<now, limiterConfig, retryConfig, failures_in_a_row, callVars>>

\* The caller invokes a function wrapped by the manager's
\* reliable_api_call(operation_id); rate_limited's wrapper runs
\* self.wait_if_needed().
ManagerCallWaitIfNeeded ==
    /\ pc = "idle"
    /\ now <= MaxTime
    /\ calls < MaxManagerCalls
    /\ calls' = calls + 1
    /\ \E operation_id \in OpIds :
          call' = [NoCall EXCEPT !.operation_id = operation_id,
                                 !.backoff_before = StateOf(backoff_state, operation_id)]
    /\ SetLimiter(Checked)
    /\ LET wait_time == IF WithinLimits(Checked) THEN 0 ELSE TimeUntil(Checked, now)
       IN  /\ now' = now + wait_time
           /\ trace' = <<Event("wait_if_needed", wait_time)>>
    /\ pc' = "record_request"
    /\ ret' = [op |-> "none"]
    /\ UNCHANGED <<limiterConfig, retryConfig, handlerVars>>

\* A caller of the manager: wrapped calls and is_healthy.
NextManager ==
    \/ ManagerCallWaitIfNeeded
    \/ CallRecordRequest
    \/ CallCheckBackoff
    \/ CallWorkReturns
    \/ CallWorkRaises
    \/ IsHealthy

\* the manager's limiter is built with requests_per_minute = 3 and
\* burst_requests = 2, its handler with max_attempts = 1
InitManager ==
    /\ Init
    /\ requests_per_minute = 3
    /\ burst_requests = 2
    /\ max_attempts = 1
    /\ base_delay_seconds = 1
    /\ max_delay_seconds = 60

SpecManager == InitManager /\ [][NextManager]_vars

----------------------------------------------------------------------------
(* What the claims speak of *)

\* the number of tracked timestamps that are less than 60 seconds old
RecentCount ==
    Cardinality({i \in 1..Len(request_times) : now - request_times[i] < WindowSeconds})

\* what can_make_request() would return if it were called now
CanNow == WithinLimits(Checked)

----------------------------------------------------------------------------
(* The rate limiter: C1 .. C8 *)

\* C1: through the rate-limited wrapper, the number of entries of
\* request_times less than 60 seconds old never exceeds requests_per_minute.
C1_RecentWithinPerMinuteCap == RecentCount <= requests_per_minute

\* C2: through the rate-limited wrapper, burst_count never exceeds
\* burst_requests.
C2_BurstWithinCap == burst_count <= burst_requests

\* C3: on a fresh limiter with burst_requests >= requests_per_minute, within
\* the first 60-second window (where burst_count is the number of requests
\* recorded so far), can_make_request() returns true exactly as long as fewer
\* than requests_per_minute requests have been recorded.
C3_PerMinuteIsRequestCount ==
    (/\ ret.op = "can_make_request"
     /\ now < WindowSeconds
     /\ burst_requests >= requests_per_minute)
    => (ret.val <=> burst_count < requests_per_minute)

\* C4: record_request() makes request_times one entry longer, the new entry
\* being the current time, adds one to burst_count and changes nothing else.
C4_RecordAppendsOnce ==
    [][RecordRequest =>
          /\ request_times' = Append(request_times, now)
          /\ burst_count' = burst_count + 1
          /\ UNCHANGED <<now, limiterConfig, last_burst_reset>>]_vars

\* C5: can_make_request() leaves no entry older than 60 seconds in
\* request_times and adds none, resets burst_count to 0 and last_burst_reset to
\* now exactly when more than 60 seconds have passed since last_burst_reset,
\* and returns true iff, after that, len(request_times) < requests_per_minute
\* and burst_count < burst_requests.
C5_CanMakeRequestContract ==
    [][CanMakeRequest =>
          /\ \A i \in 1..Len(request_times') : now - request_times'[i] <= WindowSeconds
          /\ \E k \in 0..Len(request_times) :
                request_times' = SubSeq(request_times, k + 1, Len(request_times))
          /\ IF now - last_burst_reset > WindowSeconds
             THEN burst_count' = 0 /\ last_burst_reset' = now
             ELSE UNCHANGED <<burst_count, last_burst_reset>>
          /\ ret'.val <=> (/\ Len(request_times') < requests_per_minute
                           /\ burst_count' < burst_requests)]_vars

\* a can_make_request() call has purged and has reset the burst window
C5_Witness ==
    /\ ret.op = "can_make_request"
    /\ ret.val
    /\ last_burst_reset = now
    /\ now > WindowSeconds
    /\ request_times # <<>>

C7_TimeUntilZeroOrAtLeastOne ==
    /\ CanNow => TimeUntil(Checked, now) = 0
    /\ ~CanNow => TimeUntil(Checked, now) >= 1
    /\ ret.op = "time_until_next_request" => (ret.val = 0 <=> CanNow) /\ ret.val >= 0
    /\ ret.op = "get_status" =>
          IF ret.can_make_request
          THEN ret.time_until_next_request = 0
          ELSE ret.time_until_next_request >= 1

\* time_until_next_request() has returned its floor of one second although
\* nothing is tracked any more
C7_Witness ==
    /\ ret.op = "time_until_next_request"
    /\ ret.val = 1
    /\ request_times = <<>>

\* C8: when wait_if_needed() has slept for time_until_next_request() seconds,
\* can_make_request() returns true.  It is evaluated one second after the
\* sleep has ended: with nothing recorded in between, permission once given
\* stays, so this is implied by the claim and does not rest on the sleep
\* ending at the very instant a window runs out.
C8_WaitIsLongEnough ==
    [][WaitIfNeeded =>
          WithinLimits(AfterCheck(request_times', burst_count', last_burst_reset',
                                  now' + 1))]_vars

----------------------------------------------------------------------------
(* The wrapped call: C9, C10 *)

\* the invocations of the work and the sleeps between them, in trace order
WorkEvents == SelectSeq(trace, LAMBDA e : e.ev = "work")
SleepEvents == SelectSeq(trace, LAMBDA e : e.ev = "sleep")

\* a call through the reliable_api_call wrapper has ended
CallEnded == pc = "idle" /\ ret.op = "reliable_api_call"
CallReturned == CallEnded /\ "returned" \in DOMAIN ret

\* C9: a call through reliable_api_call does wait_if_needed, then one
\* record_request, then one check_backoff, then the attempts of the retry loop
\* with a sleep between two attempts; the request is recorded once however
\* many attempts follow, and no work is invoked before it.
C9_FixedOrder ==
    /\ \A i \in 1..Len(trace) :
          /\ i = 1 => trace[i].ev = "wait_if_needed"
          /\ i = 2 => trace[i].ev = "record_request"
          /\ i = 3 => trace[i].ev = "check_backoff"
          /\ i >= 4 => trace[i].ev = (IF (i - 4) % 2 = 0 THEN "work" ELSE "sleep")
    /\ pc = "record_request" => Len(trace) = 1
    /\ pc = "func" => Len(trace) = 2
    /\ pc = "work" => Len(trace) >= 3
    /\ CallEnded => Len(trace) >= 3
    /\ Len(WorkEvents) <= call.attempts

\* a call has ended that had to wait for the limiter and made three attempts
C9_Witness ==
    /\ CallEnded
    /\ trace[1].arg > 0
    /\ Len(WorkEvents) = 3

\* C10: when the work raises retriable errors on attempts 1..k-1 and returns on
\* attempt k, the call has invoked it k times, has slept k-1 times, the i-th
\* sleep lasting calculate_backoff_delay(i, is_rate_limit_error(error i)), has
\* not slept after the success, returns the result and leaves
\* consecutive_failures = 0 for its operation id.
C10_SuccessAfterRetries ==
    CallReturned =>
        LET k == Len(WorkEvents)
        IN  /\ k >= 1 /\ k <= call.attempts
            /\ WorkEvents[k].arg = "ok"
            /\ \A i \in 1..(k - 1) :
                  /\ WorkEvents[i].arg # "ok"
                  /\ IsRetriableError(ErrorOf(WorkEvents[i].arg))
            /\ Len(SleepEvents) = k - 1
            /\ \A i \in 1..(k - 1) :
                  SleepEvents[i].arg =
                     CalculateBackoffDelay(i, IsRateLimitError(ErrorOf(WorkEvents[i].arg)))
            /\ (/\ k = 3 /\ base_delay_seconds = 1 /\ max_delay_seconds >= 2
                /\ WorkEvents[1].arg = "http_500" /\ WorkEvents[2].arg = "http_500")
               => SleepEvents[1].arg = 1 /\ SleepEvents[2].arg = 2
            /\ trace[Len(trace)] = Event("work", "ok")
            /\ ret.returned = "result"
            /\ backoff_state[call.operation_id].consecutive_failures = 0

\* the work has failed twice with a 500 and then returned, in a call that
\* first had to wait out the backoff an earlier exhausted call had left
C10_Witness ==
    /\ CallReturned
    /\ Len(WorkEvents) = 3
    /\ WorkEvents[1].arg = "http_500" /\ WorkEvents[2].arg = "http_500"
    /\ trace[3].arg > 0
    /\ SleepEvents[1].arg = 1 /\ SleepEvents[2].arg = 2

----------------------------------------------------------------------------
(* The retry loop: C11 .. C13 *)

\* a call through the reliable_api_call wrapper has ended by raising an error
\* of the work
CallRaised == CallEnded /\ "raised" \in DOMAIN ret /\ ret.raised \in WorkErrors

\* the backoff state of the operation id of the call
BackoffNow == StateOf(backoff_state, call.operation_id)

\* attempts, as the arguments of the call and the configuration give it
ExpectedAttempts == IF call.max_attempts # 0 THEN call.max_attempts ELSE max_attempts

\* C11: an error of the work for which is_retriable_error is false, on
\* whichever attempt, ends the call at once: it is the error the call raises,
\* no attempt and no sleep follow it, and the backoff state of the operation
\* id is what it was before the call.
C11_NonRetriableRaisedAtOnce ==
    \A i \in 1..Len(trace) :
        (/\ trace[i].ev = "work"
         /\ trace[i].arg # "ok"
         /\ ~IsRetriableError(ErrorOf(trace[i].arg)))
        => /\ i = Len(trace)
           /\ CallRaised
           /\ ret.raised = trace[i].arg
           /\ BackoffNow = call.backoff_before

\* a call has raised a 400 met on its second attempt, for an operation id
\* that an earlier call had left with a failure
C11_Witness ==
    /\ CallRaised
    /\ ret.raised = "http_400"
    /\ Len(WorkEvents) = 2
    /\ call.backoff_before.consecutive_failures = 1
    /\ call.backoff_before.backoff_until # NoTime

\* C12: when every one of the `attempts` attempts raises a retriable error,
\* the work has been invoked `attempts` times with attempts-1 sleeps, none
\* after the last attempt, consecutive_failures has grown by exactly 1, and
\* the call raises the error of the last attempt.
C12_ExhaustedCountsOnce ==
    (CallRaised /\ IsRetriableError(ErrorOf(ret.raised))) =>
        /\ Len(WorkEvents) = ExpectedAttempts
        /\ \A i \in 1..Len(WorkEvents) :
              /\ WorkEvents[i].arg # "ok"
              /\ IsRetriableError(ErrorOf(WorkEvents[i].arg))
        /\ Len(SleepEvents) = ExpectedAttempts - 1
        /\ trace[Len(trace)].ev = "work"
        /\ ret.raised = WorkEvents[Len(WorkEvents)].arg
        /\ BackoffNow.consecutive_failures = call.backoff_before.consecutive_failures + 1
        /\ failures_in_a_row[call.operation_id] = BackoffNow.consecutive_failures

\* a call of three attempts has been exhausted for an operation id that had
\* one failure already, and raises the 500 of its last attempt, not the 429
\* of its first
C12_Witness ==
    /\ CallRaised
    /\ Len(WorkEvents) = 3
    /\ WorkEvents[1].arg = "http_429"
    /\ ret.raised = "http_500"
    /\ BackoffNow.consecutive_failures = 2

\* C13: the work of an operation id is not invoked while its backoff_until is
\* set and in the future: check_backoff sleeps until backoff_until, and it
\* does not sleep at all when backoff_until is unset or already past.
C13_NoWorkDuringBackoff ==
    LET backoff_until == call.backoff_before.backoff_until
    IN  /\ pc = "work" =>
              /\ backoff_until = NoTime \/ now >= backoff_until
              /\ BackoffNow.backoff_until = NoTime \/ now >= BackoffNow.backoff_until
        /\ (Len(trace) >= 3 /\ trace[3].ev = "check_backoff") =>
              IF backoff_until = NoTime \/ backoff_until <= trace[2].arg
              THEN trace[3].arg = 0
              ELSE trace[3].arg = backoff_until - trace[2].arg

\* the work is about to be invoked at the very second the backoff window, left
\* by an exhausted call, has run out after a sleep of check_backoff
C13_Witness ==
    /\ pc = "work"
    /\ Len(trace) = 3
    /\ trace[3].arg > 0
    /\ now = call.backoff_before.backoff_until
    /\ call.backoff_before.consecutive_failures = 1

----------------------------------------------------------------------------
(* The classification of errors and the delays: C14 .. C17 *)

\* the lower-cased text of the error holds one of the indicator phrases
TextHasIndicator(e) ==
    \E indicator \in rate_limit_indicators : Contains(Lower(e.text), indicator)

\* the error is an HTTP error that carries a response
HasStatus(e) == e.cls = "HTTPError" /\ e.has_response

\* C14, as stated: is_rate_limit_error(err) is true if and only if err carries
\* an HTTP 429 status or its lower-cased text contains an indicator phrase,
\* for every error, HTTP errors with a response of another status included.
C14_TrueIffStatus429OrText ==
    ret.op = "is_rate_limit_error" =>
        LET e == ErrorOf(ret.exception)
        IN  ret.val <=> ((HasStatus(e) /\ e.status_code = 429) \/ TextHasIndicator(e))

\* C14, amended: for an HTTP error that carries a response,
\* is_rate_limit_error(err) is true if and only if the status of the response
\* is 429, whatever the text; for every other error it is true if and only if
\* the lower-cased text contains an indicator phrase.
C14_Status429ElseText ==
    ret.op = "is_rate_limit_error" =>
        LET e == ErrorOf(ret.exception)
        IN  /\ HasStatus(e) => (ret.val <=> e.status_code = 429)
            /\ ~HasStatus(e) => (ret.val <=> TextHasIndicator(e))

\* is_rate_limit_error has answered false for a 404 whose text, the url of
\* show 429, holds the indicator "429"
C14_Witness ==
    /\ ret.op = "is_rate_limit_error"
    /\ ret.exception = "http_404_show_429"
    /\ TextHasIndicator(ErrorOf(ret.exception))
    /\ ~ret.val

\* C15: is_retriable_error(err) is true if and only if err is a rate-limit
\* error, or a connection failure, timeout or truncated response, or an HTTP
\* error whose status is >= 500; an HTTP 4xx other than 429 is non-retriable.
C15_RetriableIff ==
    ret.op = "is_retriable_error" =>
        LET e == ErrorOf(ret.exception)
            transport == ClassesOf(e.cls) \cap
                           {"ConnectionError", "Timeout", "ChunkedEncodingError"} # {}
        IN  /\ ret.val <=> \/ IsRateLimitError(e)
                           \/ transport
                           \/ HasStatus(e) /\ e.status_code >= 500
            /\ (HasStatus(e) /\ e.status_code \in 400..499 /\ e.status_code # 429)
                  => ~ret.val

\* is_retriable_error has answered false for a 404 whose text holds "429"
C15_Witness ==
    /\ ret.op = "is_retriable_error"
    /\ ret.exception = "http_404_show_429"
    /\ ~ret.val

\* C16: calculate_backoff_delay(attempt, TRUE) is min(60, base_delay_seconds *
\* 30) for every attempt, so constant and <= 60; calculate_backoff_delay(
\* attempt, FALSE) is min(base_delay_seconds * 2^(attempt-1),
\* max_delay_seconds), non-decreasing in attempt and <= max_delay_seconds.
C16_DelayFormula ==
    ret.op = "calculate_backoff_delay" =>
        IF ret.is_rate_limit
        THEN /\ ret.val = Min(60, base_delay_seconds * 30)
             /\ ret.val <= 60
             /\ \A attempt \in 1..MaxAttemptNumber :
                   CalculateBackoffDelay(attempt, TRUE) = ret.val
        ELSE /\ ret.val = Min(base_delay_seconds * 2 ^ (ret.attempt - 1), max_delay_seconds)
             /\ ret.val <= max_delay_seconds
             /\ \A attempt \in 1..ret.attempt :
                   CalculateBackoffDelay(attempt, FALSE) <= ret.val

\* the exponential delay of attempt 7 has been cut to a max_delay_seconds of 60
C16_Witness ==
    /\ ret.op = "calculate_backoff_delay"
    /\ ~ret.is_rate_limit
    /\ ret.attempt = 7
    /\ max_delay_seconds = 60
    /\ ret.val = 60
    /\ base_delay_seconds * 2 ^ (ret.attempt - 1) > 60

\* C17: every sleep of with_retry between two attempts, and every cooldown
\* handle_failure sets, lasts at most max_delay_seconds.
C17_DelaysWithinMaxDelay ==
    /\ \A i \in 1..Len(SleepEvents) : SleepEvents[i].arg <= max_delay_seconds
    /\ \A operation_id \in DOMAIN backoff_state :
          LET backoff == backoff_state[operation_id]
          IN  backoff.backoff_until # NoTime =>
                 backoff.backoff_until - backoff.last_failure_time <= max_delay_seconds

----------------------------------------------------------------------------
(* The backoff state of an operation id: C18 .. C20 *)

\* C18: after handle_failure has been called N times in a row for an
\* operation id, with no handle_success for it in between, get_status of
\* that id reports consecutive_failures = N, for every N >= 0.
C18_StatusCountsFailuresInARow ==
    /\ \A operation_id \in OpIds :
          HandlerStatus(backoff_state, operation_id, now).consecutive_failures
             = failures_in_a_row[operation_id]
    /\ ret.op = "retry_get_status" =>
          ret.val.consecutive_failures = failures_in_a_row[ret.val.operation_id]

\* get_status reports 3 for an id after three failures in a row, the other
\* id having none
C18_Witness ==
    /\ ret.op = "retry_get_status"
    /\ ret.val.consecutive_failures = 3
    /\ failures_in_a_row[ret.val.operation_id] = 3
    /\ \E operation_id \in OpIds : failures_in_a_row[operation_id] = 0

\* C19: right after handle_success(X), X has consecutive_failures = 0,
\* backoff_until and last_failure_time cleared, and get_status(X) reports 0
\* failures and no backoff window, also for an X never referenced before.
C19_SuccessResets ==
    ret.op = "handle_success" =>
        LET status == HandlerStatus(backoff_state, ret.operation_id, now)
        IN  /\ StateOf(backoff_state, ret.operation_id) = DefaultBackoff
            /\ status.consecutive_failures = 0
            /\ status.in_backoff_period # "True"
            /\ status.backoff_until = NoTime
            /\ status.last_failure_time = NoTime
            /\ ~ret.known => ret.operation_id \notin DOMAIN backoff_state

\* handle_success has been called for an id with two failures whose backoff
\* window was still open
C19_Witness ==
    /\ ret.op = "handle_success"
    /\ ret.known
    /\ ret.before.consecutive_failures = 2
    /\ ret.before.backoff_until > now

\* consecutive_failures of an operation id, before and after a step
Failures(state, operation_id) == StateOf(state, operation_id).consecutive_failures

\* C20: consecutive_failures of an operation id is never negative and a step
\* leaves it as it is, adds 1 to it, or sets it to 0; within with_retry it
\* goes to 0 only in the step in which the work succeeds, and a step in which
\* only time passes leaves it as it is.
C20_FailuresOnlyGrowOrReset ==
    [][\A operation_id \in OpIds :
          LET before == Failures(backoff_state, operation_id)
              after == Failures(backoff_state', operation_id)
          IN  /\ after >= 0
              /\ after \in {before, before + 1, 0}
              /\ (after = 0 /\ before > 0) =>
                    /\ pc = "work"
                    /\ ret'.op = "reliable_api_call"
                    /\ "returned" \in DOMAIN ret'
                    /\ operation_id = call.operation_id
              /\ after = before + 1 =>
                    /\ pc = "work"
                    /\ "raised" \in DOMAIN ret'
                    /\ operation_id = call.operation_id
              /\ pc = "idle" /\ pc' = "idle" => after = before]_vars

\* a call has ended in success for an operation id that had a failure, after a
\* wait for the end of its backoff window
C20_Witness ==
    /\ CallReturned
    /\ call.backoff_before.consecutive_failures = 1
    /\ Failures(backoff_state, call.operation_id) = 0
    /\ trace[3].arg > 0

----------------------------------------------------------------------------
(* The limiter's waits, its purge and its status: C28 .. C30 *)

\* the limiter state, as one value
LimiterNow ==
    [request_times |-> request_times, burst_count |-> burst_count,
     last_burst_reset |-> last_burst_reset]

\* C28: wait_if_needed() does not sleep when can_make_request() is true; when
\* it is false it sleeps once, for time_until_next_request() seconds, and
\* returns without checking again; it leaves the limiter as the
\* can_make_request() made before the sleep left it, recording nothing.
C28_WaitSleepsOnceWithoutRecheck ==
    [][ret'.op = "wait_if_needed" =>
          /\ LimiterNow' = Checked
          /\ Len(request_times') <= Len(request_times)
          /\ burst_count' <= burst_count
          /\ IF WithinLimits(Checked)
             THEN now' = now /\ ret'.slept = 0
             ELSE /\ now' = now + TimeUntil(Checked, now)
                  /\ ret'.slept = TimeUntil(Checked, now)
                  /\ ret'.slept >= 1]_vars

\* wait_if_needed() has slept until the very second the oldest tracked
\* timestamp is one minute old and has returned with it still tracked
C28_Witness ==
    /\ ret.op = "wait_if_needed"
    /\ ~ret.permitted
    /\ ret.slept > 1
    /\ request_times # <<>>
    /\ now - Head(request_times) = 60
    /\ PurgeOld(request_times, now - 60) # request_times

\* request_times is sorted ascending
Sorted(times) == \A i, j \in 1..Len(times) : i <= j => times[i] <= times[j]

\* the entries of times that are at most / less than `age` seconds old at t
NotOlderThan(times, t, age) == SelectSeq(times, LAMBDA x : t - x <= age)
YoungerThan(times, t, age) == SelectSeq(times, LAMBDA x : t - x < age)

C30_StatusOnlyChecks ==
    [][ret'.op = "get_status" =>
          /\ LimiterNow' = Checked
          /\ now' = now
          /\ Len(request_times') <= Len(request_times)
          /\ burst_count' <= burst_count
          /\ ret'.requests_in_last_minute = Len(request_times')
          /\ ret'.burst_requests_used = burst_count'
          /\ ret.op = "get_status" => (LimiterNow' = LimiterNow /\ ret' = ret)]_vars

\* get_status() has found the tracked timestamps aged out and the burst window
\* over, and reports a limiter with nothing counted
C30_Witness ==
    /\ ret.op = "get_status"
    /\ now > 0
    /\ ret.last_burst_reset = now
    /\ ret.requests_in_last_minute = 0
    /\ ret.burst_requests_used = 0
    /\ ret.can_make_request

----------------------------------------------------------------------------
(* The cooldown handle_failure sets: C27 *)

\* C27: handle_failure(X, err) sets last_failure_time to now and backoff_until
\* to now + the delay of the N-th failure in a row: min(base_delay_seconds *
\* 2^(N-1), max_delay_seconds) for an error that is not a rate-limit error,
\* min(60, base_delay_seconds * 30) for a rate-limit error, whatever N is.
C27_CooldownOfNthFailure ==
    ret.op = "handle_failure" =>
        LET backoff == StateOf(backoff_state, ret.operation_id)
            N == failures_in_a_row[ret.operation_id]
            cooldown == IF IsRateLimitError(ErrorOf(ret.exception))
                        THEN Min(60, base_delay_seconds * 30)
                        ELSE Min(base_delay_seconds * 2 ^ (N - 1), max_delay_seconds)
        IN  /\ N >= 1
            /\ backoff.consecutive_failures = ret.before.consecutive_failures + 1
            /\ backoff.consecutive_failures = N
            /\ backoff.last_failure_time = now
            /\ backoff.backoff_until = now + cooldown

\* the third failure in a row, a timeout some time after construction, has
\* set a cooldown of 4 seconds
C27_Witness ==
    /\ ret.op = "handle_failure"
    /\ ret.exception = "timeout"
    /\ failures_in_a_row[ret.operation_id] = 3
    /\ max_delay_seconds = 60
    /\ now > 0
    /\ StateOf(backoff_state, ret.operation_id).backoff_until = now + 4

----------------------------------------------------------------------------
(* Backoff state per operation id: C22 *)

\* the operation id a step is for: that of the handler function called, or
\* that of the wrapped call the step starts or belongs to
StepOperationId ==
    IF ret'.op \in {"handle_failure", "handle_success", "check_backoff"}
    THEN ret'.operation_id
    ELSE IF ret'.op = "retry_get_status" THEN ret'.val.operation_id
    ELSE IF pc = "idle" THEN call'.operation_id
    ELSE call.operation_id

\* C22: a step for operation id X (handle_failure, handle_success,
\* check_backoff, get_status, or a step of a wrapped call for X) changes the
\* backoff state of no other id; the wait of check_backoff is decided by the
\* state of X alone; and a wrapper created for X starts from the state the
\* earlier wrappers for X have left.
C22_ScopedByOperationId ==
    [][LET X == StepOperationId
           own == StateOf(backoff_state, X)
           wait == IF own.backoff_until # NoTime /\ now < own.backoff_until
                   THEN own.backoff_until - now
                   ELSE 0
       IN  /\ \A Y \in OpIds \ {X} :
                 StateOf(backoff_state', Y) = StateOf(backoff_state, Y)
           /\ pc = "func" => trace'[Len(trace')].arg = wait
           /\ ret'.op = "check_backoff" => ret'.slept = wait
           /\ (pc = "idle" /\ pc' # "idle") =>
                 /\ call'.backoff_before = own
                 /\ own.consecutive_failures = failures_in_a_row[X]]_vars

\* a call for one id is about to invoke the work without having waited, while
\* the other id, left with a failure by the call before, is still in its
\* backoff window
C22_Witness ==
    /\ pc = "work"
    /\ Len(trace) = 3
    /\ trace[3].arg = 0
    /\ BackoffNow = DefaultBackoff
    /\ \E Y \in OpIds \ {call.operation_id} :
          /\ StateOf(backoff_state, Y).consecutive_failures = 1
          /\ StateOf(backoff_state, Y).backoff_until > now

----------------------------------------------------------------------------
(* TVMazeAPI: C23 .. C26 *)

\* how many calls of one kind a function of TVMazeAPI has made
Count(ev) == Len(SelectSeq(trace, LAMBDA e : e.ev = ev))

\* a function of TVMazeAPI has ended after a GET that returned a response
Responded == ret.op # "none" /\ Count("get") >= 1 /\ ret.args.outcome.exc = "None"

\* what _make_request hands to its caller when it does not raise: None for a
\* 404, the decoded body otherwise
Response ==
    IF ret.args.outcome.status_code = 404 THEN None ELSE ret.args.outcome.body

\* C23: whenever the status of the response is 404, _make_request returns
\* None without raising and without calling raise_for_status, after exactly
\* one GET, for every endpoint and every params.
C23_NotFoundReturnsNone ==
    (Responded /\ ret.args.outcome.status_code = 404) =>
        /\ Count("get") = 1
        /\ Count("raise_for_status") = 0
        /\ Count("json") = 0
        /\ ret.raised = "None"
        /\ ret.op = "_make_request" => ret.val = None

\* _make_request('/updates/shows', {'since': 'day'}) has returned None for a
\* 404 whose body is not JSON
C23_Witness ==
    /\ ret.op = "_make_request"
    /\ ret.args.endpoint = <<"/updates/shows">>
    /\ ret.args.params = Params({<<"since", "day">>})
    /\ ret.args.outcome.exc = "None"
    /\ ret.args.outcome.status_code = 404
    /\ ret.args.outcome.body = InvalidBody
    /\ ret.val = None
    /\ Len(trace) = 1

\* C24: _make_request raises the RequestException the GET raised, raises the
\* HTTPError of raise_for_status for a 4xx or 5xx status other than 404, and
\* raises ValueError when the status passes and the body is not JSON; when it
\* raises it returns no value.
C24_FailuresPropagate ==
    ret.op = "_make_request" =>
        LET outcome == ret.args.outcome
            failed_status == outcome.status_code \in {400, 429, 500}
        IN  /\ outcome.exc # "None" => ret.raised = outcome.exc
            /\ (outcome.exc = "None" /\ failed_status) =>
                  ret.raised = "HTTPError" /\ Count("json") = 0
            /\ (outcome.exc = "None" /\ outcome.status_code = 200
                  /\ outcome.body = InvalidBody) => ret.raised = "ValueError"
            /\ (outcome.exc = "None" /\ outcome.status_code = 200
                  /\ outcome.body # InvalidBody) =>
                  ret.raised = "None" /\ ret.val = outcome.body
            /\ ret.raised # "None" => ret.val = None
            /\ Count("get") = 1

\* _make_request has raised ValueError for a 200 whose body is not JSON, after
\* the GET, raise_for_status and json
C24_Witness ==
    /\ ret.op = "_make_request"
    /\ ret.args.outcome.status_code = 200
    /\ ret.args.outcome.body = InvalidBody
    /\ ret.raised = "ValueError"
    /\ Len(trace) = 3

\* C25: get_show_updates(period) returns None without any request when period
\* is not day, week or month; otherwise it makes exactly one request and,
\* when that does not raise, returns {} for a response of None, None for a
\* response that is not a mapping, and else the entries of the response whose
\* timestamp is an integer, that is an instance of int, which a bool is too.
C25_ShowUpdates ==
    ret.op = "get_show_updates" =>
        IF ret.args.period \notin {"day", "week", "month"}
        THEN trace = <<>> /\ ret.raised = "None" /\ ret.val = None
        ELSE /\ Count("_make_request") = 1
             /\ Count("get") = 1
             /\ trace[1].arg.params = Params({<<"since", ret.args.period>>})
             /\ ret.raised = "None" =>
                   IF Response = None THEN ret.val = Value("dict", {})
                   ELSE IF Response.type # "dict" THEN ret.val = None
                   ELSE /\ ret.val.type = "dict"
                        /\ ret.val.items =
                              {item \in Response.items :
                                  TypeOfScalar(item[2]) \in {"int", "bool"}}

\* get_show_updates('week') has returned the one entry with an integer
\* timestamp of a response that also held a string timestamp
C25_Witness ==
    /\ ret.op = "get_show_updates"
    /\ ret.args.period = "week"
    /\ Response = Value("dict", {<<"1", "1678886400">>, <<"2", "soon">>})
    /\ ret.val = Value("dict", {<<"1", "1678886400">>})

\* the shape each getter expects
ExpectedShape(op) ==
    CASE op \in {"get_shows", "get_seasons", "get_episodes"} -> "list"
      [] op \in {"get_show_details", "get_network", "get_webchannel"} -> "dict"

\* C26: each getter makes exactly one _make_request call and, when that does
\* not raise, returns the response unchanged if it is None or has the expected
\* shape (a list for get_shows, get_seasons and get_episodes, a mapping for
\* get_show_details, get_network and get_webchannel) and None otherwise.
C26_GettersCheckShape ==
    ret.op \in {"get_shows", "get_seasons", "get_episodes",
                "get_show_details", "get_network", "get_webchannel"} =>
        /\ Count("_make_request") = 1
        /\ Count("get") = 1
        /\ trace[1].arg.endpoint = ret.args.endpoint
        /\ ret.raised = "None" =>
              /\ ret.val = (IF Response.type = ExpectedShape(ret.op) THEN Response ELSE None)
              /\ ret.val # None => ret.val = Response

\* get_network has returned None for a response that is a list
C26_Witness ==
    /\ ret.op = "get_network"
    /\ ret.raised = "None"
    /\ Response = Value("list", {<<"0", "soon">>})
    /\ ret.val = None

----------------------------------------------------------------------------
(* TVMazeReliabilityManager: C21 *)

\* C21: is_healthy(X) returns true if and only if the limiter permits a
\* request now or its estimated wait is under 60 seconds, and
\* consecutive_failures of X is less than 5, which is the number of exhausted
\* calls for X since the last call for X that succeeded: after 5 exhausted
\* calls in a row for X it returns false, while an operation with fewer than 5
\* is reported healthy when the limiter allows it.
C21_HealthyIff ==
    ret.op = "is_healthy" =>
        LET X == ret.operation_id
            limiter_ok == CanNow \/ TimeUntil(Checked, now) < 60
        IN  /\ ret.val <=> (limiter_ok /\ Failures(backoff_state, X) < 5)
            /\ Failures(backoff_state, X) = failures_in_a_row[X]
            /\ failures_in_a_row[X] >= 5 => ~ret.val
            /\ (failures_in_a_row[X] < 5 /\ limiter_ok) => ret.val

\* is_healthy('tvmaze_api') has returned false after 5 exhausted calls in a
\* row for 'tvmaze_api', the limiter's wait being under 60 seconds and 'shows'
\* having failed fewer than 5 times
C21_Witness ==
    /\ ret.op = "is_healthy"
    /\ ret.operation_id = "tvmaze_api"
    /\ ~ret.val
    /\ failures_in_a_row["tvmaze_api"] = 5
    /\ failures_in_a_row["shows"] < 5
    /\ TimeUntil(Checked, now) < 60

----------------------------------------------------------------------------
(* Waiting and termination: C36 *)

\* C36: in every reachable state time_until_next_request() is at most 60
\* seconds, and no wait_if_needed() call sleeps for more than 60 seconds,
\* whatever request_times and burst_count hold.
C36_WaitAtMostSixty ==
    /\ TimeUntil(Checked, now) <= 60
    /\ ret.op = "time_until_next_request" => ret.val <= 60
    /\ ret.op = "wait_if_needed" => ret.slept <= 60
    /\ ret.op = "get_status" => ret.time_until_next_request <= 60

\* wait_if_needed() has slept for the full 60 seconds, the limiter holding
\* more timestamps than requests_per_minute
C36_Witness ==
    /\ ret.op = "wait_if_needed"
    /\ ret.slept = 60
    /\ Len(request_times) > requests_per_minute

\* the events of one kind of the call, in trace order
EventsOf(ev) == SelectSeq(trace, LAMBDA e : e.ev = ev)

\* C33: each call through reliable_api_call makes at most one rate-limit
\* wait, one backoff wait, `attempts` invocations of the work and attempts-1
\* sleeps between attempts (none when attempts is 0), and, every sleep ending
\* and every invocation returning or raising, a call that has started
\* eventually ends.
C33_CallTerminates ==
    /\ [](/\ Len(EventsOf("wait_if_needed")) <= 1
          /\ Len(EventsOf("check_backoff")) <= 1
          /\ Len(WorkEvents) <= ExpectedAttempts
          /\ Len(SleepEvents) <= Max(ExpectedAttempts - 1, 0)
          /\ Len(SleepEvents) <= Len(WorkEvents))
    /\ (pc # "idle") ~> (pc = "idle")

\* a call of three attempts has ended after a rate-limit wait, a backoff
\* wait, three invocations of the work and two sleeps
C33_Witness ==
    /\ CallEnded
    /\ Len(WorkEvents) = 3
    /\ Len(SleepEvents) = 2
    /\ EventsOf("wait_if_needed")[1].arg > 0
    /\ EventsOf("check_backoff")[1].arg > 0

----------------------------------------------------------------------------
(* How a call ends: C34, C35 *)

\* C34: whatever max_attempts is configured and whatever the wrapper
\* overrides it with, 0 included, a call that has ended has invoked the work
\* at least once, and it has either returned the result of an invocation or
\* raised an error that an invocation raised.
C34_ReturnsOrRaisesWorkError ==
    CallEnded =>
        /\ Len(WorkEvents) >= 1
        /\ \/ /\ "returned" \in DOMAIN ret
              /\ \E i \in 1..Len(WorkEvents) : WorkEvents[i].arg = "ok"
           \/ /\ "raised" \in DOMAIN ret
              /\ \E i \in 1..Len(WorkEvents) : WorkEvents[i].arg = ret.raised

\* C35: an error of the work that is not an instance of the wrapper's
\* exception_types leaves with_retry when it first occurs, retriable or not:
\* it is the error the call raises, no attempt and no sleep follow it, and the
\* backoff state of the operation id is what it was before the call.
C35_UncaughtErrorPropagates ==
    \A i \in 1..Len(trace) :
        (/\ "exception_types" \in DOMAIN call
         /\ trace[i].ev = "work"
         /\ trace[i].arg # "ok"
         /\ \A cls \in call.exception_types :
               cls # "Exception" /\ ~IsInstance(ErrorOf(trace[i].arg), cls))
        => /\ i = Len(trace)
           /\ pc = "idle"
           /\ ret.op = "with_retry"
           /\ ret.raised = trace[i].arg
           /\ BackoffNow = call.backoff_before

\* a call wrapped with exception_types = (HTTPError,) has raised the timeout
\* of its second attempt, a retriable error, for an operation id that an
\* earlier call had left with a failure
C35_Witness ==
    /\ ret.op = "with_retry"
    /\ "raised" \in DOMAIN ret
    /\ ret.raised = "timeout"
    /\ IsRetriableError(ErrorOf("timeout"))
    /\ call.exception_types = {"HTTPError"}
    /\ Len(WorkEvents) = 2
    /\ Len(SleepEvents) = 1
    /\ call.backoff_before.consecutive_failures = 1
    /\ BackoffNow.consecutive_failures = 1

----------------------------------------------------------------------------
(* Threads: C31, C32 *)

\* C31: when the check of wait_if_needed and record_request are one atomic
\* step, a thread that passed the check without waiting never records while a
\* limit is already reached; without synchronization two threads can both
\* pass the check with one slot left and both record (the witness).
C31_AtomicCheckAndRecord ==
    call.atomic =>
        \A t \in Threads :
            (call.threads[t].pc = "func" /\ call.threads[t].passed)
            => ~call.threads[t].over

\* without synchronization both threads have passed the check at the same
\* instant without waiting, with one slot of the burst limit left, and both
\* have recorded: burst_count is above burst_requests in the burst window
C31_Witness ==
    /\ ~call.atomic
    /\ \A t \in Threads :
          /\ call.threads[t].pc = "func"
          /\ call.threads[t].passed
          /\ call.threads[t].checked_at = now
    /\ \E t \in Threads : call.threads[t].over
    /\ \E t \in Threads : ~call.threads[t].over
    /\ burst_count = burst_requests + 1
    /\ now - last_burst_reset <= ResetSeconds

\* no thread is inside the handler
HandlerThreadsIdle == \A t \in Threads : call.threads[t].pc = "idle"

\* C32: handle_failure and handle_success of one handler called by two
\* threads: as long as no call for X has begun while a handle_failure(X) was
\* running, consecutive_failures of X is the number of failures handled
\* since the last success; when calls overlap an update can be lost, and
\* consecutive_failures ends lower than that number (the witness), never
\* higher.
C32_ExactUnlessOverlapped ==
    \A X \in OpIds :
        HandlerThreadsIdle =>
            /\ Failures(backoff_state, X) <= failures_in_a_row[X]
            /\ ~call.raced[X] => Failures(backoff_state, X) = failures_in_a_row[X]

\* two handle_failure('shows') have been handled, with no success, and
\* consecutive_failures of 'shows' is 1
C32_Witness ==
    /\ HandlerThreadsIdle
    /\ failures_in_a_row["shows"] = 2
    /\ Failures(backoff_state, "shows") = 1
    /\ calls = 2

====
